---- MODULE Spec2Model ----
(***************************************************************************)
(* Model of the market-value scraper: repository (repository.py), the      *)
(* resolution client's result construction (transfermarkt_client.py) and   *)
(* the orchestration of app.py (worker pool, aggregator, retry pass,       *)
(* backfill pass).                                                         *)
(*                                                                         *)
(* Cells of the table are modelled by their text: every read the code      *)
(* makes of a cell goes through str(), is_blank() or to_csv(), so a parsed *)
(* integer is held as the text str() gives for it.                         *)
(***************************************************************************)
EXTENDS Integers, Sequences, FiniteSets, TLC

\* ------------------------------------------------------------------ bounds
\* Number of rows of the persisted table.
NRows == 2
\* Largest worker count the operator may answer at the prompt.
MaxWorkers == 2
\* Number of repository operations applied in the repository specification.
MaxOps == 2
\* Number of calls made on one client in the session specification.
MaxSessionOps == 4

\* --------------------------------------------------------- config.py
CHECKPOINT_EVERY == 20
WRITE_EVERY_ROW == FALSE
BACKFILL_BEHIND_ROWS == 5

\* --------------------------------------------------------- helpers
Min(a, b) == IF a < b THEN a ELSE b
Max(a, b) == IF a > b THEN a ELSE b
Range(s) == {s[i] : i \in DOMAIN s}

\* None of Python.
None == <<>>

\* --------------------------------------------------------- repository.py
HEADERS ==
    << "Player", "Squad", "Matched Club", "Transfermarkt URL",
       "Market Value (raw)", "Market Value (int)", "Updated At", "Status" >>
HeaderSet == Range(HEADERS)

RowIdx == 0 .. (NRows - 1)

\* str.strip().casefold() on the texts the model uses.
StripCasefold(s) ==
    CASE s = " " -> ""
      [] s = "NaN" -> "nan"
      [] s = "None" -> "none"
      [] s = "NULL" -> "null"
      [] OTHER -> s

\* str.lower() on the texts the model uses (no strip).
Lower(s) ==
    CASE s = "NaN" -> "nan"
      [] s = "None" -> "none"
      [] s = "NULL" -> "null"
      [] OTHER -> s

\* utils.is_blank: True when value is empty/NaN/null-like.  A cell read from
\* the table is always text (load() reads with dtype=str, keep_default_na=False),
\* so the None and float-NaN branches are never taken.
is_blank(value) == StripCasefold(value) \in {"", "nan", "none", "null"}

\* Mutant of update_row: the allow-list is ignored.
update_row_all(d, idx, row_data, cols) ==
    [d EXCEPT ![idx] =
        [c \in HeaderSet |-> IF c \in DOMAIN row_data THEN row_data[c] ELSE @[c]]]

\* MarketValuesRepository.update_row: only allowed columns are overwritten.
\* The cells are set with df.at[idx, col], which for a label the frame does
\* not have appends a row, its other cells NaN.
update_row(d, idx, row_data, cols) ==
    IF idx \in DOMAIN d
    THEN [d EXCEPT ![idx] =
            [c \in HeaderSet |->
                IF c \in DOMAIN row_data /\ c \in cols THEN row_data[c] ELSE @[c]]]
    ELSE IF (DOMAIN row_data) \cap cols \cap HeaderSet = {} THEN d
    ELSE [i \in (DOMAIN d) \cup {idx} |->
            IF i = idx
            THEN [c \in HeaderSet |->
                    IF c \in DOMAIN row_data /\ c \in cols THEN row_data[c] ELSE "nan"]
            ELSE d[i]]

\* The first loop of merge_missing_fields: fill blank forced cells.
merge_fill(current, fetched_row, force_columns) ==
    [c \in HeaderSet |->
        IF c \in force_columns /\ c \in DOMAIN fetched_row /\ is_blank(current[c])
        THEN fetched_row[c]
        ELSE current[c]]

\* Mutant of merge_status: the URL is looked at before the raw value text.
merge_status_url_first(current) ==
    IF ~is_blank(current["Transfermarkt URL"])
    THEN [current EXCEPT !["Status"] = "value_not_found"]
    ELSE IF ~is_blank(current["Market Value (raw)"])
         THEN [current EXCEPT !["Status"] = "ok"]
         ELSE current

\* The status recomputation of merge_missing_fields.
merge_status(current) ==
    IF ~is_blank(current["Market Value (raw)"])
    THEN [current EXCEPT !["Status"] = "ok"]
    ELSE IF ~is_blank(current["Transfermarkt URL"])
         THEN [current EXCEPT !["Status"] = "value_not_found"]
         ELSE current

\* Mutant of merge_missing_fields: populated cells are overwritten too.
merge_missing_fields_overwrite(d, idx, fetched_row, force_columns) ==
    [d EXCEPT ![idx] =
        merge_status([c \in HeaderSet |->
            IF c \in force_columns /\ c \in DOMAIN fetched_row
            THEN fetched_row[c] ELSE @[c]])]

\* Mutant of merge_missing_fields: every column is treated as forced.
merge_missing_fields_every_column(d, idx, fetched_row, force_columns) ==
    [d EXCEPT ![idx] = merge_status(merge_fill(@, fetched_row, HeaderSet))]

\* MarketValuesRepository.merge_missing_fields.
merge_missing_fields(d, idx, fetched_row, force_columns) ==
    [d EXCEPT ![idx] = merge_status(merge_fill(@, fetched_row, force_columns))]

\* iter_rows_from lines 65-66: the negation of `not player or player.lower() == "nan"`.
has_name(player) == ~(player = "" \/ Lower(player) = "nan")

\* The indices iter_rows_from keeps, in row order, from index i on.
RECURSIVE iter_rows_loop(_, _, _)
iter_rows_loop(d, start_row, i) ==
    IF i >= NRows THEN <<>>
    ELSE LET player == d[i]["Player"]
             squad == d[i]["Squad"]
             rest == iter_rows_loop(d, start_row, i + 1)
         IN IF i + 1 < start_row THEN rest
            ELSE IF ~has_name(player) THEN rest
            ELSE << <<i, player, squad>> >> \o rest

\* Mutant of iter_rows_from: the jobs carry the 1-based row number.
iter_rows_from_one_based(d, start_row) ==
    LET found == iter_rows_loop(d, start_row, 0)
    IN [k \in DOMAIN found |-> <<found[k][1] + 1, found[k][2], found[k][3]>>]

\* Mutant of iter_rows_from: the start row is ignored.
iter_rows_from_ignoring_start(d, start_row) == iter_rows_loop(d, 1, 0)

\* MarketValuesRepository.iter_rows_from.
iter_rows_from(d, start_row) == iter_rows_loop(d, start_row, 0)

\* utils.choose_columns_to_fill: the editable headers.
Editable == HeaderSet \ {"Player", "Squad"}

\* --------------------------------------------------------- utils.py: scoring
\* Python strings are sequences of characters; TLC's strings are atoms. The
\* texts the scorers meet here, as the sequence of their characters.
chars(s) ==
    CASE s = "" -> <<>>
      [] s = " " -> <<" ">>
      [] s = "nan" -> <<"n", "a", "n">>
      [] s = "Messi" -> <<"M", "e", "s", "s", "i">>
      [] s = "L. Messi" -> <<"L", ".", " ", "M", "e", "s", "s", "i">>
      [] s = "Lionel Messi" ->
            <<"L", "i", "o", "n", "e", "l", " ", "M", "e", "s", "s", "i">>
      [] s = " lionel  MESSI " ->
            <<" ", "l", "i", "o", "n", "e", "l", " ", " ", "M", "E", "S", "S", "I", " ">>
      [] s = "Emi Martinez" ->
            <<"E", "m", "i", " ", "M", "a", "r", "t", "i", "n", "e", "z">>
      [] s = "Emiliano Martinez" ->
            <<"E", "m", "i", "l", "i", "a", "n", "o", " ",
              "M", "a", "r", "t", "i", "n", "e", "z">>
      [] s = "Inter Miami" ->
            <<"I", "n", "t", "e", "r", " ", "M", "i", "a", "m", "i">>
      [] s = "Inter Miami CF" ->
            <<"I", "n", "t", "e", "r", " ", "M", "i", "a", "m", "i", " ", "C", "F">>
      [] s = "Miami" -> <<"M", "i", "a", "m", "i">>
      [] s = "Old Club" -> <<"O", "l", "d", " ", "C", "l", "u", "b">>

\* The alphabet, upper and lower case in the same order.
UpperCase ==
    <<"A", "B", "C", "D", "E", "F", "G", "H", "I", "J", "K", "L", "M",
      "N", "O", "P", "Q", "R", "S", "T", "U", "V", "W", "X", "Y", "Z">>

LowerCase ==
    <<"a", "b", "c", "d", "e", "f", "g", "h", "i", "j", "k", "l", "m",
      "n", "o", "p", "q", "r", "s", "t", "u", "v", "w", "x", "y", "z">>

\* str.casefold on one character of the texts above.
casefold_char(c) ==
    IF \E n \in 1..Len(UpperCase) : UpperCase[n] = c
    THEN LowerCase[CHOOSE n \in 1..Len(UpperCase) : UpperCase[n] = c]
    ELSE c

\* str.casefold.
casefold(cs) == [n \in 1..Len(cs) |-> casefold_char(cs[n])]

\* str.strip: leading and trailing white space removed.
RECURSIVE lstrip(_)
lstrip(cs) == IF cs # <<>> /\ Head(cs) = " " THEN lstrip(Tail(cs)) ELSE cs

RECURSIVE rstrip(_)
rstrip(cs) ==
    IF cs # <<>> /\ cs[Len(cs)] = " " THEN rstrip(SubSeq(cs, 1, Len(cs) - 1)) ELSE cs

strip(cs) == rstrip(lstrip(cs))

\* re.sub(r"\s+", " ", s): every run of white space becomes one space.
RECURSIVE collapse(_)
collapse(cs) ==
    IF Len(cs) < 2 THEN cs
    ELSE IF cs[1] = " " /\ cs[2] = " " THEN collapse(Tail(cs))
    ELSE <<cs[1]>> \o collapse(Tail(cs))

\* utils.normalize_text (normalize_player_name and normalize_club_name are
\* this function): strip, collapse white space, drop combining marks (the
\* texts above carry none), casefold.
normalize_text(value) == casefold(collapse(strip(chars(value))))

\* Python's `a in b` on strings.
contains(a, b) ==
    \E n \in 0..(Len(b) - Len(a)) : SubSeq(b, n + 1, n + Len(a)) = a

\* str.split(): the maximal runs of non-space characters.
RECURSIVE split_loop(_, _)
split_loop(cs, tok) ==
    IF cs = <<>> THEN (IF tok = <<>> THEN <<>> ELSE <<tok>>)
    ELSE IF Head(cs) = " "
         THEN (IF tok = <<>> THEN <<>> ELSE <<tok>>) \o split_loop(Tail(cs), <<>>)
         ELSE split_loop(Tail(cs), Append(tok, Head(cs)))

split(cs) == split_loop(cs, <<>>)

\* str.startswith.
startswith(a, b) == Len(b) <= Len(a) /\ SubSeq(a, 1, Len(b)) = b

\* score_name's clean_token: re.sub(r"[^a-z]", "", tok.casefold()).
clean_token(tok) ==
    SelectSeq(casefold(tok), LAMBDA c : \E n \in 1..Len(LowerCase) : LowerCase[n] = c)

\* score_name's loop over zip(q_last, r_last): the length of the common prefix.
RECURSIVE common_prefix(_, _)
common_prefix(a, b) ==
    IF a = <<>> \/ b = <<>> \/ Head(a) # Head(b) THEN 0
    ELSE 1 + common_prefix(Tail(a), Tail(b))

\* Mutant of score_name: the row name is compared as it came, not normalized.
score_name_raw_row(query_name, row_name) ==
    IF row_name = "" THEN 0
    ELSE IF normalize_text(query_name) = chars(row_name) THEN 3
    ELSE IF contains(normalize_text(query_name), chars(row_name)) THEN 2
    ELSE 0

\* utils.score_name.
score_name(query_name, row_name) ==
    IF row_name = "" THEN 0
    ELSE
    LET q == normalize_text(query_name)
        r == normalize_text(row_name)
        q_parts == split(q)
        r_parts == split(r)
        q_tokens == Range(q_parts)
        r_tokens == Range(r_parts)
    IN IF q = r THEN 3
       ELSE IF contains(q, r) \/ contains(r, q) THEN 2
       ELSE IF q_tokens # {}
               /\ Cardinality(q_tokens \cap r_tokens)
                    >= Max(1, Min(Cardinality(q_tokens), 2))
            THEN 1
       ELSE IF Len(q_parts) >= 2 /\ Len(r_parts) >= 2
            THEN LET q_first == clean_token(q_parts[1])
                     r_first == clean_token(r_parts[1])
                     q_last == clean_token(q_parts[Len(q_parts)])
                     r_last == clean_token(r_parts[Len(r_parts)])
                     min_len == Min(Len(q_last), Len(r_last))
                     same_last ==
                         \/ q_last = r_last
                         \/ /\ min_len >= 4
                            /\ \/ startswith(q_last, SubSeq(r_last, 1, min_len))
                               \/ startswith(r_last, SubSeq(q_last, 1, min_len))
                         \/ common_prefix(q_last, r_last) >= 5
                     first_prefix ==
                         /\ Len(q_first) >= 3
                         /\ startswith(r_first, q_first) \/ startswith(q_first, r_first)
                 IN IF q_first = <<>> \/ r_first = <<>> \/ q_last = <<>> \/ r_last = <<>>
                    THEN 0
                    ELSE IF same_last /\ first_prefix THEN 1 ELSE 0
            ELSE 0

\* utils.score_squad's loop over row_clubs from position n on, with the best
\* score and label so far: <<score, club>>.
RECURSIVE score_squad_loop(_, _, _, _, _)
score_squad_loop(q, row_clubs, n, best_score, best_club) ==
    IF n > Len(row_clubs) THEN <<best_score, best_club>>
    ELSE LET club == row_clubs[n]
             c == normalize_text(club)
         IN IF c = <<>> THEN score_squad_loop(q, row_clubs, n + 1, best_score, best_club)
            ELSE IF q = c THEN <<3, club>>
            ELSE IF contains(q, c) \/ contains(c, q)
                 THEN IF best_score < 2
                      THEN score_squad_loop(q, row_clubs, n + 1, 2, club)
                      ELSE score_squad_loop(q, row_clubs, n + 1, best_score, best_club)
            ELSE IF Range(split(q)) \cap Range(split(c)) # {} /\ best_score < 1
                 THEN score_squad_loop(q, row_clubs, n + 1, 1, club)
                 ELSE score_squad_loop(q, row_clubs, n + 1, best_score, best_club)

\* utils.score_squad.
score_squad(query_squad, row_clubs) ==
    LET first == IF row_clubs # <<>> THEN row_clubs[1] ELSE ""
    IN IF query_squad = "" THEN <<0, first>>
       ELSE score_squad_loop(normalize_text(query_squad), row_clubs, 1, 0, first)

\* --------------------------------------------------------- transfermarkt_client.py
\* The timestamp time.strftime gives; one token stands for every clock reading.
Now == "2026-02-18 12:19:00"

\* utils.parse_market_value_to_int on the value texts of this model ("E" stands
\* for the euro sign): <<n>> for the integer n, None when the text holds no
\* digits.
parse_market_value_to_int(value) ==
    CASE value = "E30.00m" -> <<30000000>>
      [] value = "750k" -> <<750000>>
      [] OTHER -> None

\* What the fast tier (_find_best_http) can return: None, or (href, club, mv_raw).
\* A transport failure is caught inside and gives None.
HttpOutcomes ==
    { None,
      <<"https://tm/messi", "Inter Miami CF", "E30.00m">>,
      <<"https://tm/messi", "Inter Miami CF", "">> }

\* What the fallback tier can do: fail to build the driver, fail after the
\* driver is built (navigation, wait), or return None or a match.
BrowserOutcomes ==
    { <<"build_raises">>, <<"browse_raises">>, None,
      <<"https://tm/messi", "Inter Miami CF", "E30.00m">>,
      <<"https://tm/messi", "Inter Miami CF", "">> }

\* The answers of the external source a run of the whole program meets here,
\* as (fast tier, fallback tier): a value found by the fast tier, a match
\* without value, no match in either tier, a browser failure, and a value found
\* by the fallback tier only.
Lookups ==
    { <<h, b>> \in HttpOutcomes \X BrowserOutcomes :
        \/ h # None /\ h[3] # "" /\ b = None
        \/ h # None /\ h[3] = "" /\ b = None
        \/ h = None /\ b = None
        \/ h = None /\ b = <<"browse_raises">>
        \/ h = None /\ b # None /\ Len(b) = 3 /\ b[3] # "" }

\* Mutant of key_greater: a candidate as good as the best replaces it.
key_greater_or_equal(a, b) ==
    \/ a[1] > b[1]
    \/ a[1] = b[1] /\ a[2] > b[2]
    \/ a[1] = b[1] /\ a[2] = b[2] /\ a[3] >= b[3]

\* Python's comparison of the tuples candidate[:3] > best[:3].
key_greater(a, b) ==
    \/ a[1] > b[1]
    \/ a[1] = b[1] /\ a[2] > b[2]
    \/ a[1] = b[1] /\ a[2] = b[2] /\ a[3] > b[3]

\* The candidate loop both tiers run over the rows of a result page, from row
\* n on with the best candidate so far: each row holds the profile link, the
\* name shown, the affiliation labels and the value text.
RECURSIVE find_best_loop(_, _, _, _, _)
find_best_loop(player_name, squad, page_rows, n, best) ==
    IF n > Len(page_rows) THEN best
    ELSE LET row == page_rows[n]
             name_score == score_name(player_name, row.name)
             sq == score_squad(squad, row.clubs)
             total == (name_score * 10) + (sq[1] * 4) + (IF row.mv_raw # "" THEN 1 ELSE 0)
             candidate == [key |-> <<total, name_score, sq[1]>>, href |-> row.href,
                           best_club |-> sq[2], mv_raw |-> row.mv_raw]
         IN IF name_score = 0
            THEN find_best_loop(player_name, squad, page_rows, n + 1, best)
            ELSE IF best = None \/ key_greater(candidate.key, best[1].key)
                 THEN find_best_loop(player_name, squad, page_rows, n + 1, <<candidate>>)
                 ELSE find_best_loop(player_name, squad, page_rows, n + 1, best)

\* The end of both tiers: None, or (href, best_club, mv_raw) of the best row.
find_best(player_name, squad, page_rows) ==
    LET best == find_best_loop(player_name, squad, page_rows, 1, None)
    IN IF best = None THEN None
       ELSE <<best[1].href, best[1].best_club, best[1].mv_raw>>

\* _find_best_http on what the source answers: a transport failure is caught
\* and gives None.
find_best_http(player_name, squad, page) ==
    IF page.fails # "" THEN None ELSE find_best(player_name, squad, page.rows)

\* _ensure_browser and _find_best_browser on what the browser meets: the
\* driver cannot be built, the navigation or the wait raises, or a page.
find_best_browser(player_name, squad, page) ==
    IF page.fails = "build" THEN <<"build_raises">>
    ELSE IF page.fails = "browse" THEN <<"browse_raises">>
    ELSE find_best(player_name, squad, page.rows)

\* A row of a result page.
page_row(name, clubs, mv_raw) ==
    [href |-> "https://tm/messi", name |-> name, clubs |-> clubs, mv_raw |-> mv_raw]

\* The result pages of the external source the client is run against: empty;
\* the full name of the player with label and value; the name as queried with
\* and without label and value; a value text without digits; another player
\* ahead of the queried one; two rows for the queried name that score alike;
\* a player of another name, alone and ahead of the queried one.
PageRows ==
    { <<>>,
      << page_row("Lionel Messi", <<"Inter Miami CF">>, "E30.00m") >>,
      << page_row("L. Messi", <<"Inter Miami CF">>, "E30.00m") >>,
      << page_row("L. Messi", <<"Inter Miami CF">>, "") >>,
      << page_row("L. Messi", <<>>, "E30.00m") >>,
      << page_row("L. Messi", <<>>, "") >>,
      << page_row("L. Messi", <<"Inter Miami CF">>, "-") >>,
      << [href |-> "https://tm/old", name |-> "Messi", clubs |-> <<"Old Club">>,
          mv_raw |-> "750k"],
         page_row("L. Messi", <<"Old Club", "Inter Miami CF">>, "E30.00m") >>,
      << [href |-> "https://tm/old", name |-> "L. Messi",
          clubs |-> <<"Inter Miami CF">>, mv_raw |-> "750k"],
         page_row("L. Messi", <<"Inter Miami CF">>, "E30.00m") >>,
      << [href |-> "https://tm/old", name |-> "Emi Martinez",
          clubs |-> <<"Inter Miami CF">>, mv_raw |-> "750k"] >>,
      << [href |-> "https://tm/old", name |-> "Emi Martinez",
          clubs |-> <<"Inter Miami CF">>, mv_raw |-> "750k"],
         page_row("L. Messi", <<>>, "") >> }

HttpPages ==
    { [fails |-> "transport", rows |-> <<>>] } \cup
    { [fails |-> "", rows |-> r] : r \in PageRows }

BrowserPages ==
    { [fails |-> f, rows |-> <<>>] : f \in {"build", "browse"} } \cup
    { [fails |-> "", rows |-> r] : r \in PageRows }

\* process_player line 284: the fast tier's answer sends the call to the browser.
needs_fallback(match) == match = None \/ ~(match[3] # "" /\ StripCasefold(match[3]) # "")

\* Mutant of classify: the status is taken from the parsed value.
classify_by_parsed(mv_raw) ==
    IF parse_market_value_to_int(mv_raw) # None THEN "ok" ELSE "value_not_found"

\* process_player line 313: "ok" if mv_raw else "value_not_found".
classify(mv_raw) == IF mv_raw # "" THEN "ok" ELSE "value_not_found"

\* The row payload process_player builds from the final match.
payload(player_name, squad, match) ==
    IF match = None
    THEN [c \in HeaderSet |->
            CASE c = "Player" -> player_name
              [] c = "Squad" -> squad
              [] c = "Updated At" -> Now
              [] c = "Status" -> "not_found"
              [] OTHER -> ""]
    ELSE LET url == match[1]
             matched_club == match[2]
             mv_raw == match[3]
             mv_int == IF mv_raw # "" THEN parse_market_value_to_int(mv_raw) ELSE None
         IN [c \in HeaderSet |->
                CASE c = "Player" -> player_name
                  [] c = "Squad" -> squad
                  [] c = "Matched Club" -> matched_club
                  [] c = "Transfermarkt URL" -> url
                  [] c = "Market Value (raw)" -> mv_raw
                  [] c = "Market Value (int)" -> IF mv_int # None THEN ToString(mv_int[1]) ELSE ""
                  [] c = "Updated At" -> Now
                  [] c = "Status" -> classify(mv_raw)]

\* The error row a worker or the retry pass builds when process_player raises.
error_row(player, squad, kind) ==
    [c \in HeaderSet |->
        CASE c = "Player" -> player
          [] c = "Squad" -> squad
          [] c = "Updated At" -> Now
          [] c = "Status" -> kind
          [] OTHER -> ""]

\* The exception a fallback outcome raises, as f"error:{type(exc).__name__}".
error_kind(browser) ==
    IF browser = <<"build_raises">> THEN "error:WebDriverException" ELSE "error:TimeoutException"

\* Mutant of ensure_browser: a driver is built at every fallback.
ensure_browser_always_builds(driver, browser) ==
    IF browser = <<"build_raises">> THEN [driver |-> driver, built |-> 0]
    ELSE [driver |-> TRUE, built |-> 1]

\* TransfermarktClient._ensure_browser: the client's driver afterwards and the
\* number of drivers built.  An existing driver is kept; else a driver is built
\* and assigned before the home page is opened, so it stays when that
\* navigation raises; when the build itself raises there is none.
ensure_browser(driver, browser) ==
    IF driver THEN [driver |-> TRUE, built |-> 0]
    ELSE IF browser = <<"build_raises">> THEN [driver |-> FALSE, built |-> 0]
    ELSE [driver |-> TRUE, built |-> 1]

\* TransfermarktClient.process_player on a client whose driver is `driver`
\* (TRUE when a browser session exists): whether it raised, the row and source
\* it returned, the client's driver afterwards and the drivers built.
process_player(driver, player_name, squad, http, browser) ==
    IF needs_fallback(http)
    THEN LET eb == ensure_browser(driver, browser)
         IN
         IF browser = <<"build_raises">>
         THEN IF driver
              THEN \* _ensure_browser returns at once; the search itself fails
                   [raised |-> TRUE, kind |-> "error:TimeoutException",
                    driver |-> eb.driver, fallback |-> TRUE, built |-> eb.built]
              ELSE [raised |-> TRUE, kind |-> error_kind(browser), driver |-> eb.driver,
                    fallback |-> TRUE, built |-> eb.built]
         ELSE IF browser = <<"browse_raises">>
         THEN [raised |-> TRUE, kind |-> error_kind(browser), driver |-> eb.driver,
               fallback |-> TRUE, built |-> eb.built]
         ELSE LET match == IF browser # None THEN browser ELSE http
                  source == IF browser # None THEN "browser" ELSE "http"
              IN [raised |-> FALSE, row |-> payload(player_name, squad, match),
                  source |-> source, driver |-> eb.driver, fallback |-> TRUE,
                  built |-> eb.built]
    ELSE [raised |-> FALSE, row |-> payload(player_name, squad, http),
          source |-> "http", driver |-> driver, fallback |-> FALSE, built |-> 0]

\* --------------------------------------------------------- app.py: state
VARIABLES
    df,               \* repo.df: the in-memory table, row index -> column -> text
    disk,             \* the persisted CSV
    pc,               \* position of the orchestrator thread in run()
    columns_to_fill,  \* self.columns_to_fill
    start_row,        \* self.start_row
    enable_backfill,  \* self.enable_backfill
    rows,             \* rows = repo.iter_rows_from(start_row)
    tasks_queue,      \* tasks_queue of _run_parallel
    result_queue,     \* result_queue of _run_parallel
    stop_event,       \* stop_event of _run_parallel
    worker,           \* per worker thread: position, job, client
    processed_idxs,   \* processed_idxs of _run_parallel
    results,          \* results of _run_parallel / run
    processed,        \* processed of _run_parallel
    interrupted,      \* interrupted of _run_parallel
    missing_idxs,     \* missing_idxs of run()
    seq_pass,         \* the sequential pass in progress: loop position, client
    hist,             \* history of the run, read only by the properties
    env               \* what the operator and the scheduler do in this run

vars ==
    << env, df, disk, pc, columns_to_fill, start_row, enable_backfill, rows,
       tasks_queue, result_queue, stop_event, worker, processed_idxs, results,
       processed, interrupted, missing_idxs, seq_pass, hist >>

Workers == 1 .. MaxWorkers

\* idx of the (None, None, "worker_done:<id>") sentinel.
NoneIdx == 0 - 1

\* A worker thread that was never started.
NotStarted ==
    [pc |-> "unstarted", job |-> None, driver |-> FALSE,
     created |-> 0, closed |-> 0, exit_by |-> ""]

\* No sequential pass has a client yet.
NoPass == [i |-> 0, driver |-> FALSE, updates |-> 0, created |-> 0, closed |-> 0]

\* No repository operation was applied yet.
NoOp == [op |-> "", idx |-> NoneIdx]

\* --------------------------------------------------------- stores a run can find
\* A row as initialize_if_missing seeds it.
seed_row(player, squad) ==
    [c \in HeaderSet |->
        CASE c = "Player" -> player [] c = "Squad" -> squad [] OTHER -> ""]

\* A row as an earlier run with every column allowed left it.
earlier_row(url, club, raw, status) ==
    [c \in HeaderSet |->
        CASE c = "Player" -> "L. Messi"
          [] c = "Squad" -> "Inter Miami"
          [] c = "Matched Club" -> club
          [] c = "Transfermarkt URL" -> url
          [] c = "Market Value (raw)" -> raw
          [] c = "Market Value (int)" ->
                IF raw # "" /\ parse_market_value_to_int(raw) # None
                THEN ToString(parse_market_value_to_int(raw)[1]) ELSE ""
          [] c = "Updated At" -> "2025-01-01 00:00:00"
          [] c = "Status" -> status]

\* The rows a run of the whole program finds in the store here: seeded rows
\* (one with the name pandas gives a missing cell) and a row an earlier run
\* resolved from the same external source.
StoreRows ==
    { seed_row("L. Messi", "Inter Miami"),
      seed_row("nan", "nan"),
      earlier_row("https://tm/messi", "Inter Miami CF", "E30.00m", "ok") }

\* The rows the repository operations are tried on.
RepoRows ==
    StoreRows \cup
    { earlier_row("https://tm/old", "Old Club", "750k", "ok"),
      earlier_row("https://tm/old", "Old Club", "-", "ok"),
      earlier_row("https://tm/old", "Old Club", "", "value_not_found"),
      earlier_row("", "", "", "not_found"),
      earlier_row("", "", "", "error:TimeoutException") }

\* The allow-lists choose_columns_to_fill returns in this model: every editable
\* column, or a non-empty selection of them.
ColumnChoices ==
    { Editable, Editable \ {"Status"} }

\* The runs of the worker pool: the operator's answers at the prompts (allow-list,
\* start row, backfill, worker count) and whether Ctrl-C may be pressed.  Every
\* worker count runs without backfill; one worker also runs with it.
PoolRuns ==
    { e \in [columns : {Editable}, start_row : {1}, backfill : BOOLEAN,
             workers : 1 .. MaxWorkers, ctrl_c : {TRUE}] :
        e.backfill => e.workers = 1 }

\* A start row so far behind the table that the backfill pass, which starts
\* BACKFILL_BEHIND_ROWS rows before it, begins at the last row.
LateStart == BACKFILL_BEHIND_ROWS + NRows

\* The runs over a store an earlier run left: every allow-list, start row and
\* backfill answer, with one worker.
StoreRuns ==
    [columns : ColumnChoices, start_row : (1 .. (NRows + 1)) \cup {LateStart},
     backfill : BOOLEAN, workers : {1}, ctrl_c : {TRUE}]

\* repo.save(): the CSV is rewritten from the in-memory table.
save(d) == d

InitRun ==
    /\ disk = df
    /\ columns_to_fill = {}
    /\ start_row = 1
    /\ enable_backfill = FALSE
    /\ rows = <<>>
    /\ tasks_queue = <<>>
    /\ result_queue = <<>>
    /\ stop_event = FALSE
    /\ worker = [w \in Workers |-> NotStarted]
    /\ processed_idxs = {}
    /\ results = <<>>
    /\ processed = 0
    /\ interrupted = FALSE
    /\ missing_idxs = <<>>
    /\ seq_pass = NoPass
    /\ hist = [df0 |-> df, written |-> {}, pushed |-> [i \in RowIdx |-> 0],
               writes |-> [i \in RowIdx |-> 0],
               late_gets |-> [w \in Workers |-> 0], retry_raised |-> {},
               bf_looked |-> {}, bf_raised |-> {}, opened |-> 0, quit |-> 0,
               lost |-> {}, raised |-> {}, diverged |-> {}, retry_calls |-> 0,
               backfill_calls |-> 0, ops |-> 0, last |-> NoOp]

\* The state after construction and repo.load(): a freshly seeded store.
Init ==
    /\ df \in [RowIdx -> {seed_row("L. Messi", "Inter Miami"), seed_row("nan", "nan")}]
    /\ env \in PoolRuns
    /\ pc = "setup"
    /\ InitRun

\* The state after construction and repo.load(): a store an earlier run left.
InitStore ==
    /\ df \in [RowIdx -> StoreRows]
    /\ env \in StoreRuns
    /\ pc = "setup"
    /\ InitRun

\* The cells the resumability property compares.
ResultCols ==
    { "Status", "Transfermarkt URL", "Market Value (raw)", "Market Value (int)" }

\* History: the rows for which this run wrote a result other than the one the
\* store held when the run began.
note_result(h, idx, row) ==
    IF idx \in DOMAIN h.df0 /\ \E c \in ResultCols : row[c] # h.df0[idx][c]
    THEN [h EXCEPT !.diverged = @ \cup {idx}]
    ELSE h

\* --------------------------------------------------------- app.py: run(), setup
\* run() lines 272-277: the prompts are answered and the jobs are listed.
Setup ==
    /\ pc = "setup"
    /\ columns_to_fill' = env.columns
    /\ start_row' = env.start_row
    /\ enable_backfill' = env.backfill
    /\ rows' = iter_rows_from(df, env.start_row)
    /\ pc' = "parallel"
    /\ UNCHANGED << env, df, disk, tasks_queue, result_queue, stop_event, worker,
                    processed_idxs, results, processed, interrupted,
                    missing_idxs, seq_pass, hist >>

total_jobs == Len(rows)

\* utils.ask_worker_count for the answer raw.
ask_worker_count(raw, jobs) == Max(1, Min(raw, jobs))

\* _run_parallel lines 97-124: no job returns at once; otherwise the task queue
\* is preloaded and ask_worker_count's number of threads is started.
StartParallel ==
    /\ pc = "parallel"
    /\ IF total_jobs = 0
       THEN /\ pc' = "retry"
            /\ UNCHANGED << tasks_queue, worker >>
       ELSE /\ worker' = [w \in Workers |->
                             IF w <= ask_worker_count(env.workers, total_jobs)
                             THEN [NotStarted EXCEPT !.pc = "check", !.created = 1]
                             ELSE NotStarted]
            /\ tasks_queue' = rows
            /\ pc' = "poll"
    /\ UNCHANGED << env, df, disk, columns_to_fill, start_row, enable_backfill, rows,
                    result_queue, stop_event, processed_idxs, results, processed,
                    interrupted, missing_idxs, seq_pass, hist >>

\* --------------------------------------------------------- app.py: _worker_loop
\* The process lives until run() returns: daemon threads end with it.
ProcessAlive == pc \notin {"setup", "parallel", "done", "repo"}

\* Mutant of loop_continues: the flag is not looked at.
loop_continues_always(flag) == TRUE

\* Line 69: the loop test `not stop_event.is_set()`.
loop_continues(flag) == ~flag

\* Line 69: while not stop_event.is_set().
WorkerCheck(w) ==
    /\ ProcessAlive
    /\ worker[w].pc = "check"
    /\ worker' = [worker EXCEPT ![w] =
            IF ~loop_continues(stop_event)
            THEN [@ EXCEPT !.pc = "close", !.exit_by = "stop"]
            ELSE [@ EXCEPT !.pc = "get"]]
    /\ UNCHANGED << env, df, disk, pc, columns_to_fill, start_row, enable_backfill, rows,
                    tasks_queue, result_queue, stop_event, processed_idxs, results,
                    processed, interrupted, missing_idxs, seq_pass, hist >>

\* Lines 70-73: tasks_queue.get(timeout=0.3); Empty breaks the loop.
WorkerGet(w) ==
    /\ ProcessAlive
    /\ worker[w].pc = "get"
    /\ IF tasks_queue # <<>>
       THEN /\ worker' = [worker EXCEPT ![w] =
                    [@ EXCEPT !.pc = "fetch", !.job = Head(tasks_queue)]]
            /\ tasks_queue' = Tail(tasks_queue)
            /\ hist' = [hist EXCEPT !.late_gets[w] = IF stop_event THEN @ + 1 ELSE @]
       ELSE /\ worker' = [worker EXCEPT ![w] =
                    [@ EXCEPT !.pc = "close", !.exit_by = "empty"]]
            /\ UNCHANGED << tasks_queue, hist >>
    /\ UNCHANGED << env, df, disk, pc, columns_to_fill, start_row, enable_backfill, rows,
                    result_queue, stop_event, processed_idxs, results, processed,
                    interrupted, missing_idxs, seq_pass >>

\* Mutant of worker_result: the exception is not converted to a row; it leaves
\* the loop and no result is pushed for the job.
worker_result_uncaught(job, r) ==
    IF r.raised
    THEN <<>>
    ELSE << [idx |-> job[1], row |-> r.row, source |-> r.source] >>

\* Lines 74-90: what the worker pushes for its job after process_player ended
\* with r: the client's row, or the error row of the except branch.
worker_result(job, r) ==
    IF r.raised
    THEN << [idx |-> job[1], row |-> error_row(job[2], job[3], r.kind),
             source |-> "error"] >>
    ELSE << [idx |-> job[1], row |-> r.row, source |-> r.source] >>

\* Mutant of worker_frame: the worker writes its result into the table itself.
worker_frame_writes(d, out) ==
    IF out = <<>> THEN d ELSE update_row(d, out[1].idx, out[1].row, Editable)

\* Lines 59-93: _worker_loop has no statement on self.repo; the table after a
\* worker's step is the table before it.
worker_frame(d, out) == d

\* Lines 74-90: the call of process_player ends (while the worker is at
\* "fetch" the call is in progress), task_done, and the result is put.
WorkerFetch(w) ==
    /\ ProcessAlive
    /\ worker[w].pc = "fetch"
    /\ \E l \in Lookups :
        LET job == worker[w].job
            r == process_player(worker[w].driver, job[2], job[3], l[1], l[2])
            out == worker_result(job, r)
        IN /\ result_queue' = result_queue \o out
           /\ df' = worker_frame(df, out)
           /\ worker' = [worker EXCEPT ![w] =
                 IF out = <<>>
                 THEN [@ EXCEPT !.pc = "close", !.job = None, !.driver = r.driver,
                                !.exit_by = "exception"]
                 ELSE [@ EXCEPT !.pc = "check", !.job = None, !.driver = r.driver]]
           /\ hist' = [hist EXCEPT
                 !.pushed = [i \in RowIdx |->
                               @[i] + Len(SelectSeq(out, LAMBDA x : x.idx = i))],
                 !.raised = IF r.raised THEN @ \cup {job[1]} ELSE @]
    /\ UNCHANGED << env, disk, pc, columns_to_fill, start_row, enable_backfill, rows,
                    tasks_queue, stop_event, processed_idxs, results, processed,
                    interrupted, missing_idxs, seq_pass >>

\* Mutant of client_close: the session is left open.
client_close_leak(c) == c

\* TransfermarktClient.close on a client record: the driver is quit and dropped.
client_close(c) == [c EXCEPT !.driver = FALSE, !.closed = @ + 1]

\* close() lines 41-43: the number of driver.quit() calls it makes.
quits(c) == IF c.driver THEN 1 ELSE 0

\* close() lines 42-45: whether an error of driver.quit() leaves close();
\* `except Exception: pass` keeps it inside.
close_raises(c, quit_raises) == FALSE

\* Line 92: client.close() in the finally of the worker.
WorkerClose(w) ==
    /\ ProcessAlive
    /\ worker[w].pc = "close"
    /\ worker' = [worker EXCEPT ![w] = [client_close(@) EXCEPT !.pc = "done_put"]]
    /\ UNCHANGED << env, df, disk, pc, columns_to_fill, start_row, enable_backfill, rows,
                    tasks_queue, result_queue, stop_event, processed_idxs, results,
                    processed, interrupted, missing_idxs, seq_pass, hist >>

\* Line 93: results_queue.put((None, None, f"worker_done:{worker_id}")).
WorkerDonePut(w) ==
    /\ ProcessAlive
    /\ worker[w].pc = "done_put"
    /\ result_queue' = Append(result_queue,
            [idx |-> NoneIdx, row |-> None, source |-> "worker_done:" \o ToString(w)])
    /\ worker' = [worker EXCEPT ![w] = [@ EXCEPT !.pc = "exiting"]]
    /\ UNCHANGED << env, df, disk, pc, columns_to_fill, start_row, enable_backfill, rows,
                    tasks_queue, stop_event, processed_idxs, results, processed,
                    interrupted, missing_idxs, seq_pass, hist >>

\* The thread function returns: is_alive() is False from here on.
WorkerExit(w) ==
    /\ ProcessAlive
    /\ worker[w].pc = "exiting"
    /\ worker' = [worker EXCEPT ![w] = [@ EXCEPT !.pc = "dead"]]
    /\ UNCHANGED << env, df, disk, pc, columns_to_fill, start_row, enable_backfill, rows,
                    tasks_queue, result_queue, stop_event, processed_idxs, results,
                    processed, interrupted, missing_idxs, seq_pass, hist >>

\* --------------------------------------------------------- app.py: _run_parallel
\* Mutant of all_dead: the threads are never found dead.
all_dead_never == FALSE

\* Line 131: all(not t.is_alive() for t in threads).
all_dead == \A w \in Workers : worker[w].pc \in {"unstarted", "dead"}

\* Lines 148-153: the write cadence of the parallel pass.
checkpoint_due(n) ==
    WRITE_EVERY_ROW \/ (CHECKPOINT_EVERY # 0 /\ n % CHECKPOINT_EVERY = 0)

\* Lines 137-153, the statements run for a dequeued result `it`, cut after the
\* first k of them: update_row (1), processed_idxs.add (2), results.append (3),
\* processed += 1 (4), the checkpoint write (5).  They touch only what the
\* orchestrator thread owns, so a turn of the loop is one step of the model and
\* an interrupt lands after any k of them.
Statements == 5

aggregated(k, it) ==
    LET d == IF k >= 1 THEN update_row(df, it.idx, it.row, columns_to_fill) ELSE df
        n == IF k >= 4 THEN processed + 1 ELSE processed
    IN [df |-> d,
        processed_idxs |-> IF k >= 2 THEN processed_idxs \cup {it.idx} ELSE processed_idxs,
        results |-> IF k >= 3 THEN Append(results, it.row) ELSE results,
        processed |-> n,
        disk |-> IF k >= 5 /\ checkpoint_due(n) THEN save(d) ELSE disk,
        hist |-> [(IF k >= 1 THEN note_result(hist, it.idx, it.row) ELSE hist) EXCEPT
                    !.written = IF k >= 1 THEN @ \cup {it.idx} ELSE @,
                    !.writes[it.idx] = IF k >= 1 THEN @ + 1 ELSE @,
                    !.lost = IF k = 0 THEN @ \cup {it.idx} ELSE @]]

\* Lines 127-153, one turn of the loop: the loop test, then
\* result_queue.get(timeout=0.3).  The get returns an item when there is one and
\* times out on an empty queue; a sentinel is skipped; a result is aggregated.
AggPoll ==
    /\ pc = "poll"
    /\ IF processed >= total_jobs
       THEN /\ pc' = "join"
            /\ UNCHANGED << result_queue, df, disk, processed_idxs, results,
                            processed, hist >>
       ELSE IF result_queue = <<>>
       THEN /\ pc' = "alive"
            /\ UNCHANGED << result_queue, df, disk, processed_idxs, results,
                            processed, hist >>
       ELSE /\ result_queue' = Tail(result_queue)
            /\ pc' = "poll"
            /\ IF Head(result_queue).idx = NoneIdx
               THEN UNCHANGED << df, disk, processed_idxs, results, processed, hist >>
               ELSE LET a == aggregated(Statements, Head(result_queue))
                    IN /\ df' = a.df
                       /\ disk' = a.disk
                       /\ processed_idxs' = a.processed_idxs
                       /\ results' = a.results
                       /\ processed' = a.processed
                       /\ hist' = a.hist
    /\ UNCHANGED << env, columns_to_fill, start_row, enable_backfill, rows,
                    tasks_queue, stop_event, worker, interrupted, missing_idxs,
                    seq_pass >>

\* Lines 130-133: after Empty, break when no thread is alive, else poll again.
AggAlive ==
    /\ pc = "alive"
    /\ pc' = IF all_dead THEN "join" ELSE "poll"
    /\ UNCHANGED << env, df, disk, columns_to_fill, start_row, enable_backfill, rows,
                    tasks_queue, result_queue, stop_event, worker, processed_idxs,
                    results, processed, interrupted, missing_idxs, seq_pass,
                    hist >>

\* Mutant of interrupt_flush: the handler does not write the table.
interrupt_flush_skipped(d, old) == old

\* Line 158: the handler's self.repo.save().
interrupt_flush(d, old) == save(d)

\* Mutant of after_interrupt: the handler goes back into the loop.
after_interrupt_resumes == "poll"

\* Lines 126-161: the try encloses the while loop, so the handler is left at
\* the joins of line 161.
after_interrupt == "join"

\* Lines 154-159: KeyboardInterrupt reaches the orchestrator thread while it
\* waits in the poll (or between turns), the handler sets the flag and saves.
Interrupt ==
    /\ env.ctrl_c
    /\ pc \in {"poll", "alive"}
    /\ interrupted' = TRUE
    /\ stop_event' = TRUE
    /\ disk' = interrupt_flush(df, disk)
    /\ pc' = after_interrupt
    /\ UNCHANGED << env, df, columns_to_fill, start_row, enable_backfill, rows,
                    tasks_queue, result_queue, worker, processed_idxs, results,
                    processed, missing_idxs, seq_pass, hist >>

\* Lines 154-159: KeyboardInterrupt reaches the orchestrator thread inside a
\* turn, after a result was dequeued and k of its statements have run.
InterruptInTurn ==
    /\ env.ctrl_c
    /\ pc = "poll"
    /\ processed < total_jobs
    /\ result_queue # <<>>
    /\ Head(result_queue).idx # NoneIdx
    /\ \E k \in 0 .. (Statements - 1) :
        LET a == aggregated(k, Head(result_queue))
        IN /\ df' = a.df
           /\ processed_idxs' = a.processed_idxs
           /\ results' = a.results
           /\ processed' = a.processed
           /\ hist' = a.hist
           /\ disk' = interrupt_flush(a.df, a.disk)
    /\ result_queue' = Tail(result_queue)
    /\ interrupted' = TRUE
    /\ stop_event' = TRUE
    /\ pc' = after_interrupt
    /\ UNCHANGED << env, columns_to_fill, start_row, enable_backfill, rows,
                    tasks_queue, worker, missing_idxs, seq_pass >>

\* Lines 161-165: every thread is joined with a timeout of one second, so the
\* pass returns whether or not the threads have ended.
Join ==
    /\ pc = "join"
    /\ pc' = "retry"
    /\ UNCHANGED << env, df, disk, columns_to_fill, start_row, enable_backfill, rows,
                    tasks_queue, result_queue, stop_event, worker, processed_idxs,
                    results, processed, interrupted, missing_idxs, seq_pass,
                    hist >>

\* --------------------------------------------------------- app.py: retry pass
\* sorted(S) for a set of row indices.
RECURSIVE sorted(_)
sorted(S) ==
    IF S = {} THEN <<>>
    ELSE LET m == CHOOSE x \in S : \A y \in S : x <= y
         IN <<m>> \o sorted(S \ {m})

\* row_lookup.keys() of run() line 278.
JobIdxs == {rows[k][1] : k \in DOMAIN rows}

\* row_lookup[idx] of run() line 278.
row_lookup(idx) ==
    LET k == CHOOSE j \in DOMAIN rows : rows[j][1] = idx
    IN <<rows[k][2], rows[k][3]>>

\* Mutant of missing_of: the retry list does not look at the interrupt.
missing_of_always(was_interrupted, done) == sorted(JobIdxs \ done)

\* Mutant of missing_of: every job is retried, aggregated or not.
missing_of_all(was_interrupted, done) ==
    IF was_interrupted THEN <<>> ELSE sorted(JobIdxs)

\* Mutant of missing_of: nothing is ever retried.
missing_of_never(was_interrupted, done) == <<>>

\* run() line 281: nothing is retried after an interrupt.
missing_of(was_interrupted, done) ==
    IF was_interrupted THEN <<>> ELSE sorted(JobIdxs \ done)

\* run() line 281 and _retry_missing lines 169-172.
RetryStart ==
    /\ pc = "retry"
    /\ missing_idxs' = missing_of(interrupted, processed_idxs)
    /\ IF missing_idxs' = <<>>
       THEN pc' = "final_save" /\ seq_pass' = NoPass
       ELSE pc' = "retry_call" /\ seq_pass' = [NoPass EXCEPT !.i = 1, !.created = 1]
    /\ UNCHANGED << env, df, disk, columns_to_fill, start_row, enable_backfill, rows,
                    tasks_queue, result_queue, stop_event, worker, processed_idxs,
                    results, processed, interrupted, hist >>

\* Mutant of retry_row: the exception is swallowed without a status.
retry_row_swallowed(player, squad, r) ==
    IF r.raised THEN error_row(player, squad, "") ELSE r.row

\* _retry_missing lines 176-188: the row of the call, or the error row of the
\* except branch.
retry_row(player, squad, r) ==
    IF r.raised THEN error_row(player, squad, r.kind) ELSE r.row

\* _retry_missing lines 174-193: one turn of the loop.  While pc is
\* "retry_call" the call for missing_idxs[seq_pass.i] is in progress.
RetryCall ==
    /\ pc = "retry_call"
    /\ LET idx == missing_idxs[seq_pass.i]
           player == row_lookup(idx)[1]
           squad == row_lookup(idx)[2]
       IN \E l \in Lookups :
            LET r == process_player(seq_pass.driver, player, squad, l[1], l[2])
                row_out == retry_row(player, squad, r)
            IN /\ df' = update_row(df, idx, row_out, columns_to_fill)
               /\ results' = Append(results, row_out)
               /\ disk' = IF WRITE_EVERY_ROW THEN save(df') ELSE disk
               /\ seq_pass' = [seq_pass EXCEPT !.driver = r.driver, !.i = @ + 1]
               /\ hist' = [note_result(hist, idx, row_out) EXCEPT
                               !.retry_calls = @ + 1, !.writes[idx] = @ + 1,
                               !.retry_raised = IF r.raised THEN @ \cup {idx} ELSE @]
    /\ pc' = IF seq_pass.i >= Len(missing_idxs) THEN "retry_close" ELSE "retry_call"
    /\ UNCHANGED << env, columns_to_fill, start_row, enable_backfill, rows, tasks_queue,
                    result_queue, stop_event, worker, processed_idxs, processed,
                    interrupted, missing_idxs >>

\* _retry_missing lines 194-196: the finally closes the client.
RetryClose ==
    /\ pc = "retry_close"
    /\ seq_pass' = client_close(seq_pass)
    /\ pc' = "final_save"
    /\ UNCHANGED << env, df, disk, columns_to_fill, start_row, enable_backfill, rows,
                    tasks_queue, result_queue, stop_event, worker, processed_idxs,
                    results, processed, interrupted, missing_idxs, hist >>

\* run() lines 284-285: the final write.
FinalSave ==
    /\ pc = "final_save"
    /\ disk' = save(df)
    /\ pc' = "backfill"
    /\ UNCHANGED << env, df, columns_to_fill, start_row, enable_backfill, rows,
                    tasks_queue, result_queue, stop_event, worker, processed_idxs,
                    results, processed, interrupted, missing_idxs, seq_pass,
                    hist >>

\* --------------------------------------------------------- app.py: backfill pass
force_cols ==
    { "Transfermarkt URL", "Market Value (raw)", "Market Value (int)",
      "Matched Club", "Updated At", "Status" }

\* Mutant of backfill_runs: the pass is skipped after an interrupt.
backfill_runs_unless_interrupted(enabled, was_interrupted) == enabled /\ ~was_interrupted

\* _run_backfill lines 200-202: the pass runs when it is enabled.
backfill_runs(enabled, was_interrupted) == enabled

\* Mutant of backfill_start_idx: the pass starts at the start row.
backfill_start_idx_no_margin(sr) == Max(0, sr - 1)

\* _run_backfill line 204: start_idx.
backfill_start_idx(sr) == Max(0, sr - 1 - BACKFILL_BEHIND_ROWS)

\* _run_backfill lines 200-208.
BackfillStart ==
    /\ pc = "backfill"
    /\ IF backfill_runs(enable_backfill, interrupted)
       THEN /\ seq_pass' = [NoPass EXCEPT
                    !.i = backfill_start_idx(start_row), !.created = 1]
            /\ pc' = "bf_scan"
       ELSE /\ seq_pass' = NoPass
            /\ pc' = "done"
    /\ UNCHANGED << env, df, disk, columns_to_fill, start_row, enable_backfill, rows,
                    tasks_queue, result_queue, stop_event, worker, processed_idxs,
                    results, processed, interrupted, missing_idxs, hist >>

\* _run_backfill lines 215-220: the row at idx needs a lookup.
needs_backfill(d, idx) ==
    /\ ~is_blank(d[idx]["Player"])
    /\ \/ is_blank(d[idx]["Transfermarkt URL"])
       \/ is_blank(d[idx]["Market Value (int)"])

\* _run_backfill lines 211-222: the loop head and the two skips.
BackfillScan ==
    /\ pc = "bf_scan"
    /\ IF seq_pass.i >= NRows
       THEN pc' = "bf_close" /\ UNCHANGED seq_pass
       ELSE IF needs_backfill(df, seq_pass.i)
       THEN pc' = "bf_call" /\ UNCHANGED seq_pass
       ELSE pc' = "bf_scan" /\ seq_pass' = [seq_pass EXCEPT !.i = @ + 1]
    /\ UNCHANGED << env, df, disk, columns_to_fill, start_row, enable_backfill, rows,
                    tasks_queue, result_queue, stop_event, worker, processed_idxs,
                    results, processed, interrupted, missing_idxs, hist >>

\* Mutant of backfill_row: a lookup that raised writes an error row and counts
\* the row, as the worker and the retry pass do.
backfill_row_error_row(d, idx, r, updates) ==
    [df |-> merge_missing_fields(
                d, idx,
                IF r.raised
                THEN error_row(d[idx]["Player"], d[idx]["Squad"], r.kind)
                ELSE r.row,
                force_cols),
     updates |-> updates + 1]

\* _run_backfill lines 223-239: the table and the count of touched rows after
\* the lookup for row idx has ended with r; a raise goes to the next row
\* (continue, line 228), a returned row is merged and counted.
backfill_row(d, idx, r, updates) ==
    IF r.raised
    THEN [df |-> d, updates |-> updates]
    ELSE [df |-> merge_missing_fields(d, idx, r.row, force_cols),
          updates |-> updates + 1]

\* _run_backfill lines 223-244: the lookup ends; a raise skips the row, a
\* returned row is merged.  While pc is "bf_call" the call for row seq_pass.i
\* is in progress.
BackfillCall ==
    /\ pc = "bf_call"
    /\ LET idx == seq_pass.i
           player == df[idx]["Player"]
           squad == df[idx]["Squad"]
       IN \E l \in Lookups :
            \E r \in {process_player(seq_pass.driver, player, squad, l[1], l[2])} :
            \E out \in {backfill_row(df, idx, r, seq_pass.updates)} :
               /\ df' = out.df
               /\ seq_pass' = [seq_pass EXCEPT !.driver = r.driver, !.i = @ + 1,
                                               !.updates = out.updates]
               /\ hist' = [(IF r.raised THEN hist ELSE note_result(hist, idx, r.row))
                              EXCEPT !.backfill_calls = @ + 1,
                                     !.bf_looked = @ \cup {idx},
                                     !.bf_raised = IF r.raised THEN @ \cup {idx} ELSE @]
               /\ disk' = IF WRITE_EVERY_ROW /\ ~r.raised THEN save(df') ELSE disk
    /\ pc' = "bf_scan"
    /\ UNCHANGED << env, columns_to_fill, start_row, enable_backfill, rows, tasks_queue,
                    result_queue, stop_event, worker, processed_idxs, results,
                    processed, interrupted, missing_idxs >>

\* _run_backfill lines 245-248: KeyboardInterrupt inside the loop is caught and
\* the table is saved.
BackfillInterrupt ==
    /\ env.ctrl_c
    /\ pc \in {"bf_scan", "bf_call"}
    /\ disk' = save(df)
    /\ pc' = "bf_close"
    /\ UNCHANGED << env, df, columns_to_fill, start_row, enable_backfill, rows,
                    tasks_queue, result_queue, stop_event, worker, processed_idxs,
                    results, processed, interrupted, missing_idxs, seq_pass,
                    hist >>

\* Mutant of backfill_final_write: the pass ends without its write.
backfill_final_write_skipped(updates, d, old) == old

\* _run_backfill lines 253-255: the file after the final write of the pass,
\* made when a row was touched.
backfill_final_write(updates, d, old) == IF updates > 0 THEN save(d) ELSE old

\* _run_backfill lines 249-255: the finally closes the client, then the final
\* write of the pass.
BackfillClose ==
    /\ pc = "bf_close"
    /\ seq_pass' = client_close(seq_pass)
    /\ disk' = backfill_final_write(seq_pass.updates, df, disk)
    /\ pc' = "done"
    /\ UNCHANGED << env, df, columns_to_fill, start_row, enable_backfill, rows,
                    tasks_queue, result_queue, stop_event, worker, processed_idxs,
                    results, processed, interrupted, missing_idxs, hist >>

\* --------------------------------------------------------- specification
WorkerStep ==
    \E w \in Workers :
        \/ WorkerCheck(w)
        \/ WorkerGet(w)
        \/ WorkerFetch(w)
        \/ WorkerClose(w)
        \/ WorkerDonePut(w)
        \/ WorkerExit(w)

Next ==
    \/ Setup
    \/ StartParallel
    \/ WorkerStep
    \/ AggPoll
    \/ AggAlive
    \/ Interrupt
    \/ InterruptInTurn
    \/ Join
    \/ RetryStart
    \/ RetryCall
    \/ RetryClose
    \/ FinalSave
    \/ BackfillStart
    \/ BackfillScan
    \/ BackfillCall
    \/ BackfillInterrupt
    \/ BackfillClose

\* The worker pool on a freshly seeded store.
Spec == Init /\ [][Next]_vars

\* The whole run on a store an earlier run left.
SpecStore == InitStore /\ [][Next]_vars

\* --------------------------------------------------------- parallel pass alone
\* run() up to the return of _run_parallel, with the threads it leaves behind.
InitPool ==
    /\ df \in [RowIdx -> {seed_row("L. Messi", "Inter Miami"), seed_row("nan", "nan")}]
    /\ env \in { e \in PoolRuns : ~e.backfill }
    /\ pc = "setup"
    /\ InitRun

NextPool ==
    \/ Setup
    \/ StartParallel
    \/ WorkerStep
    \/ AggPoll
    \/ AggAlive
    \/ Interrupt
    \/ InterruptInTurn
    \/ Join

\* The scheduler runs every thread that can take a step: the orchestrator in
\* its loop and at the join, and each worker, whose lookup returns or raises.
FairPool ==
    /\ WF_vars(StartParallel)
    /\ WF_vars(AggPoll)
    /\ WF_vars(AggAlive)
    /\ WF_vars(Join)
    /\ \A w \in Workers :
          WF_vars(WorkerCheck(w) \/ WorkerGet(w) \/ WorkerFetch(w)
                  \/ WorkerClose(w) \/ WorkerDonePut(w) \/ WorkerExit(w))

SpecPool == InitPool /\ [][NextPool]_vars /\ FairPool

\* --------------------------------------------------------- repository alone
\* The rows process_player can return to the backfill pass.
FetchedRows ==
    { payload("L. Messi", "Inter Miami", m) : m \in HttpOutcomes }

\* The rows update_row is given: a returned row or an error row.
ResultRows ==
    FetchedRows \cup
    { error_row("L. Messi", "Inter Miami", "error:TimeoutException") }

InitRepo ==
    /\ df \in [RowIdx -> RepoRows]
    /\ env = [columns |-> Editable, start_row |-> 1, backfill |-> FALSE,
              workers |-> 1, ctrl_c |-> FALSE]
    /\ pc = "repo"
    /\ InitRun

\* merge_missing_fields applied to any row with any fetched row, as the
\* backfill pass calls it.
RepoMerge ==
    /\ pc = "repo"
    /\ hist.ops < MaxOps
    /\ \E idx \in RowIdx, fetched \in FetchedRows :
        /\ df' = merge_missing_fields(df, idx, fetched, force_cols)
        /\ hist' = [hist EXCEPT !.ops = @ + 1,
                       !.last = [op |-> "merge", idx |-> idx, before |-> df[idx],
                                 fetched |-> fetched, columns |-> force_cols]]
    /\ UNCHANGED << env, disk, pc, columns_to_fill, start_row, enable_backfill, rows,
                    tasks_queue, result_queue, stop_event, worker, processed_idxs,
                    results, processed, interrupted, missing_idxs, seq_pass >>

\* update_row applied to any row with any result row and allow-list.
RepoUpdate ==
    /\ pc = "repo"
    /\ hist.ops < MaxOps
    /\ \E idx \in RowIdx, row_data \in ResultRows, cols \in ColumnChoices \cup {{"Status"}} :
        /\ df' = update_row(df, idx, row_data, cols)
        /\ hist' = [hist EXCEPT !.ops = @ + 1,
                       !.last = [op |-> "update", idx |-> idx, before |-> df[idx],
                                 fetched |-> row_data, columns |-> cols]]
    /\ UNCHANGED << env, disk, pc, columns_to_fill, start_row, enable_backfill, rows,
                    tasks_queue, result_queue, stop_event, worker, processed_idxs,
                    results, processed, interrupted, missing_idxs, seq_pass >>

NextRepo ==
    \/ RepoMerge
    \/ RepoUpdate

\* The repository operations on the rows a store can hold.
SpecRepo == InitRepo /\ [][NextRepo]_vars

\* --------------------------------------------------------------- client alone
\* The jobs the client is given.
ClientJobs == { <<0, "L. Messi", "Inter Miami">>, <<0, "Messi", "">> }

\* The calls made on the client.
MaxCalls == 1

\* A client before a call: new, or with the browser session an earlier
\* fallback left open.
InitClient ==
    /\ df = [i \in RowIdx |-> seed_row("L. Messi", "Inter Miami")]
    /\ env = [columns |-> Editable, start_row |-> 1, backfill |-> FALSE,
              workers |-> 1, ctrl_c |-> FALSE]
    /\ pc = "client"
    /\ disk = df
    /\ columns_to_fill = {}
    /\ start_row = 1
    /\ enable_backfill = FALSE
    /\ rows = <<>>
    /\ tasks_queue = <<>>
    /\ result_queue = <<>>
    /\ stop_event = FALSE
    /\ worker = [w \in Workers |-> NotStarted]
    /\ processed_idxs = {}
    /\ results = <<>>
    /\ processed = 0
    /\ interrupted = FALSE
    /\ missing_idxs = <<>>
    /\ seq_pass \in { [NoPass EXCEPT !.driver = d] : d \in BOOLEAN }
    /\ hist = [df0 |-> df, written |-> {}, pushed |-> [i \in RowIdx |-> 0],
               writes |-> [i \in RowIdx |-> 0],
               late_gets |-> [w \in Workers |-> 0], retry_raised |-> {},
               bf_looked |-> {}, bf_raised |-> {}, opened |-> 0, quit |-> 0,
               lost |-> {}, raised |-> {}, diverged |-> {}, retry_calls |-> 0,
               backfill_calls |-> 0, ops |-> 0, last |-> NoOp]

\* One client, as a worker holds it, is called for a job against any answer
\* of the two tiers; the worker turns the outcome into its result.
ClientCall ==
    /\ pc = "client"
    /\ hist.ops < MaxCalls
    /\ \E job \in ClientJobs, hp \in HttpPages, bp \in BrowserPages :
       \E http \in {find_best_http(job[2], job[3], hp)},
          browser \in {find_best_browser(job[2], job[3], bp)} :
       \E r \in {process_player(seq_pass.driver, job[2], job[3], http, browser)} :
           /\ seq_pass' = [seq_pass EXCEPT !.driver = r.driver]
           /\ hist' = [hist EXCEPT !.ops = @ + 1,
                          !.last = [op |-> "resolve", idx |-> job[1], job |-> job,
                                    http_page |-> hp, browser_page |-> bp,
                                    http_match |-> http, browser_match |-> browser,
                                    raised |-> r.raised, fallback |-> r.fallback,
                                    out |-> worker_result(job, r)]]
    /\ UNCHANGED << env, df, disk, pc, columns_to_fill, start_row, enable_backfill, rows,
                    tasks_queue, result_queue, stop_event, worker, processed_idxs,
                    results, processed, interrupted, missing_idxs >>

\* The client's driver is closed, as at the end of a worker.
ClientClose ==
    /\ pc = "client"
    /\ seq_pass.driver
    /\ seq_pass' = client_close(seq_pass)
    /\ UNCHANGED << env, df, disk, pc, columns_to_fill, start_row, enable_backfill, rows,
                    tasks_queue, result_queue, stop_event, worker, processed_idxs,
                    results, processed, interrupted, missing_idxs, hist >>

NextClient ==
    \/ ClientCall
    \/ ClientClose

\* The resolution client on the answers the external source can give.
SpecClient == InitClient /\ [][NextClient]_vars

\* ------------------------------------------------------------- job list alone
\* The name cells a loaded store can hold: a name, the texts pandas and the
\* seed leave for a missing cell, an empty and a white-space cell, and the
\* null-like words in other spellings.
NameCells == { "L. Messi", "", " ", "nan", "NaN", "None", "NULL" }

\* run() up to line 277, on a store with any of these names.
InitJobs ==
    /\ df \in [RowIdx -> { seed_row(n, "Inter Miami") : n \in NameCells }]
    /\ env \in [columns : {Editable}, start_row : 1 .. (NRows + 1), backfill : {TRUE},
                 workers : {1}, ctrl_c : {FALSE}]
    /\ pc = "setup"
    /\ InitRun

\* The job list of a run: iter_rows_from as run() calls it.
SpecJobs == InitJobs /\ [][Setup]_vars

\* -------------------------------------------------------------- session alone
InitSession ==
    /\ df = [i \in RowIdx |-> seed_row("L. Messi", "Inter Miami")]
    /\ env = [columns |-> Editable, start_row |-> 1, backfill |-> FALSE,
              workers |-> 1, ctrl_c |-> FALSE]
    /\ pc = "session"
    /\ InitRun

\* What the properties keep of the call before the last one.
brief(last) ==
    [op |-> last.op,
     raised |-> IF last.op = "call" THEN last.raised ELSE FALSE,
     built |-> IF last.op = "call" THEN last.built ELSE 0]

\* process_player is called on the client, with any answer of the two tiers.
SessionCall ==
    /\ pc = "session"
    /\ hist.ops < MaxSessionOps
    /\ \E http \in HttpOutcomes, browser \in BrowserOutcomes :
          LET r == process_player(seq_pass.driver, "L. Messi", "Inter Miami",
                                  http, browser)
          IN /\ seq_pass' = [seq_pass EXCEPT !.driver = r.driver]
             /\ hist' = [hist EXCEPT !.ops = @ + 1, !.opened = @ + r.built,
                            !.last = [op |-> "call", idx |-> NoneIdx,
                                      browser |-> browser,
                                      driver_before |-> seq_pass.driver,
                                      fallback |-> r.fallback, raised |-> r.raised,
                                      built |-> r.built, prev |-> brief(hist.last)]]
    /\ UNCHANGED << env, df, disk, pc, columns_to_fill, start_row, enable_backfill, rows,
                    tasks_queue, result_queue, stop_event, worker, processed_idxs,
                    results, processed, interrupted, missing_idxs >>

\* close() is called on the client; driver.quit() may raise.
SessionClose ==
    /\ pc = "session"
    /\ hist.ops < MaxSessionOps
    /\ \E quit_raises \in BOOLEAN :
          /\ seq_pass' = client_close(seq_pass)
          /\ hist' = [hist EXCEPT !.ops = @ + 1, !.quit = @ + quits(seq_pass),
                         !.last = [op |-> "close", idx |-> NoneIdx,
                                   driver_before |-> seq_pass.driver,
                                   quit_raises |-> quit_raises,
                                   escaped |-> close_raises(seq_pass, quit_raises),
                                   prev |-> brief(hist.last)]]
    /\ UNCHANGED << env, df, disk, pc, columns_to_fill, start_row, enable_backfill, rows,
                    tasks_queue, result_queue, stop_event, worker, processed_idxs,
                    results, processed, interrupted, missing_idxs >>

NextSession ==
    \/ SessionCall
    \/ SessionClose

\* One client over its life: calls and closes in any order.
SpecSession == InitSession /\ [][NextSession]_vars

\* --------------------------------------------------------------- scorer alone
\* The names the scorer is given: empty, white space only, and names that
\* differ in case, spacing, initials and short forms.
NameTexts ==
    { "", " ", "nan", "Messi", "L. Messi", "Lionel Messi", " lionel  MESSI ",
      "Emi Martinez", "Emiliano Martinez" }

InitScore ==
    /\ df = [i \in RowIdx |-> seed_row("L. Messi", "Inter Miami")]
    /\ env = [columns |-> Editable, start_row |-> 1, backfill |-> FALSE,
              workers |-> 1, ctrl_c |-> FALSE]
    /\ pc = "score"
    /\ InitRun

\* score_name is called, as the tiers call it for each row of a page.
ScoreCall ==
    /\ pc = "score"
    /\ hist.ops < MaxOps
    /\ \E query_name \in NameTexts, row_name \in NameTexts :
          hist' = [hist EXCEPT !.ops = @ + 1,
                      !.last = [op |-> "score", idx |-> NoneIdx, query |-> query_name,
                                row |-> row_name,
                                score |-> score_name(query_name, row_name)]]
    /\ UNCHANGED << env, df, disk, pc, columns_to_fill, start_row, enable_backfill, rows,
                    tasks_queue, result_queue, stop_event, worker, processed_idxs,
                    results, processed, interrupted, missing_idxs, seq_pass >>

\* The name scorer on every pair of names.
SpecScore == InitScore /\ [][ScoreCall]_vars

\* ===================================================================== claims
\* --------------------------------------------------------------- parallel pass
\* C1: when _run_parallel returns without having been interrupted, every job
\* has been aggregated exactly once: results holds one entry per job and
\* processed_idxs holds every job index.
C1_EveryJobAggregated ==
    (pc = "retry" /\ ~interrupted) =>
        /\ Len(results) = total_jobs
        /\ processed_idxs = JobIdxs

\* The external lookups in progress for row i: in a worker, in the retry pass
\* and in the backfill pass.
in_flight(i) ==
    Cardinality({ w \in Workers : worker[w].pc = "fetch" /\ worker[w].job[1] = i })
    + (IF pc = "retry_call" /\ missing_idxs[seq_pass.i] = i THEN 1 ELSE 0)
    + (IF pc = "bf_call" /\ seq_pass.i = i THEN 1 ELSE 0)

\* C2: at any moment at most one lookup is in progress for a given row.
C2_OneLookupPerRow == \A i \in RowIdx : in_flight(i) <= 1

\* C3: after cancellation the rows written by the parallel pass are exactly
\* the rows in processed_idxs, results holds one entry for each of them, and
\* once the handler has flushed, the file holds the frame.
C3_CancelKeepsAggregatedSet ==
    interrupted =>
        /\ hist.written = processed_idxs
        /\ Len(results) = Cardinality(processed_idxs)
        /\ (pc \in {"join", "retry", "final_save"} => disk = df)

\* C4: after cancellation the retry pass looks nothing up and writes nothing:
\* its list of missing rows is empty whatever the parallel pass left undone.
C4_NoRetryAfterCancel ==
    interrupted =>
        /\ hist.retry_calls = 0
        /\ missing_idxs = <<>>
        /\ pc \notin {"retry_call", "retry_close"}

\* C4 witness: a cancelled run is past the retry pass with jobs left undone.
C4_Witness ==
    /\ interrupted
    /\ pc = "final_save"
    /\ JobIdxs \ processed_idxs # {}

\* C5: after cancellation the backfill pass looks nothing up.
C5_NoBackfillAfterCancel ==
    interrupted =>
        /\ hist.backfill_calls = 0
        /\ pc \notin {"bf_scan", "bf_call"}

\* ------------------------------------------------------------------- workers
\* The job indices still waiting in the task queue.
queued == { tasks_queue[n][1] : n \in 1..Len(tasks_queue) }

\* The job indices some worker has taken and finished with.
finished ==
    IF pc \in {"setup", "parallel"} THEN {}
    ELSE (JobIdxs \ queued) \
         { i \in RowIdx : \E w \in Workers :
                worker[w].pc = "fetch" /\ worker[w].job[1] = i }

\* The shape of the row pushed for a job whose lookup raised.
is_error_item(it) ==
    /\ it.source = "error"
    /\ it.row["Status"] \in {"error:WebDriverException", "error:TimeoutException"}
    /\ \A c \in {"Transfermarkt URL", "Market Value (raw)", "Market Value (int)",
                 "Matched Club"} : it.row[c] = ""

\* C6: a lookup that raises costs the worker nothing but that job: exactly one
\* result is pushed for every job a worker finished, the result of a raising
\* lookup is an error row with blank URL, value and club, and no worker ends
\* because of an exception.
C6_ExceptionBecomesErrorRow ==
    /\ \A i \in RowIdx : hist.pushed[i] = (IF i \in finished THEN 1 ELSE 0)
    /\ \A n \in 1..Len(result_queue) :
          LET it == result_queue[n]
          IN it.idx # NoneIdx =>
                /\ (it.idx \in hist.raised <=> is_error_item(it))
                /\ ~is_blank(it.row["Status"])
    /\ \A w \in Workers : worker[w].exit_by \in {"", "stop", "empty"}

\* C6 witness: the only worker pushed an error row for a lookup that raised
\* and is looking up its next job.
C6_Witness ==
    /\ env.workers = 1
    /\ hist.raised # {}
    /\ \E i \in hist.raised : hist.pushed[i] = 1
    /\ worker[1].pc = "fetch"

\* The sentinels of worker w waiting in the result queue.
sentinels(w) ==
    Len(SelectSeq(result_queue,
                  LAMBDA x : x.source = "worker_done:" \o ToString(w)))

\* C7: every started worker created exactly one client and closes it exactly
\* once, before its sentinel is put and before the thread ends, however its
\* loop ended.
C7_ClientClosedOnce ==
    \A w \in Workers :
        /\ worker[w].created = (IF worker[w].pc = "unstarted" THEN 0 ELSE 1)
        /\ worker[w].closed =
              (IF worker[w].pc \in {"done_put", "exiting", "dead"} THEN 1 ELSE 0)
        /\ worker[w].pc \in {"done_put", "exiting", "dead"} => ~worker[w].driver
        /\ sentinels(w) <= 1
        /\ sentinels(w) = 1 => worker[w].pc \in {"exiting", "dead"}

\* C7 witness: a worker stopped by the stop event and a worker that ran out
\* of jobs have both ended with their client closed.
C7_Witness ==
    /\ \E w \in Workers :
          worker[w].pc = "dead" /\ worker[w].exit_by = "stop" /\ worker[w].closed = 1
    /\ \E w \in Workers :
          worker[w].pc = "dead" /\ worker[w].exit_by = "empty" /\ worker[w].closed = 1

\* ---------------------------------------------------------------- repository
\* C8 as stated: merge_missing_fields leaves every non-blank cell of a forced
\* column as it was, Status included.
C8_MergeKeepsEveryForcedCell ==
    hist.last.op = "merge" =>
        \A c \in hist.last.columns :
            ~is_blank(hist.last.before[c]) =>
                df[hist.last.idx][c] = hist.last.before[c]

\* C8: merge_missing_fields leaves every non-blank cell of a forced column
\* other than Status as it was; a non-blank Status changes only to the value
\* the recomputation gives it, ok or value_not_found.
C8_MergeKeepsForcedCellsButStatus ==
    hist.last.op = "merge" =>
        /\ \A c \in hist.last.columns \ {"Status"} :
              ~is_blank(hist.last.before[c]) =>
                  df[hist.last.idx][c] = hist.last.before[c]
        /\ ~is_blank(hist.last.before["Status"]) =>
              df[hist.last.idx]["Status"] \in
                  {hist.last.before["Status"], "ok", "value_not_found"}

\* C8 witness: a merge met a non-blank forced cell for which the fetched row
\* had another non-blank value.
C8_Witness ==
    /\ hist.last.op = "merge"
    /\ \E c \in hist.last.columns \ {"Status"} :
          /\ ~is_blank(hist.last.before[c])
          /\ ~is_blank(hist.last.fetched[c])
          /\ hist.last.fetched[c] # hist.last.before[c]

\* ------------------------------------------------------------------- resuming
\* Row i of the file holds the result the store had for it when the run began.
same_result(i) == \A c \in ResultCols : disk[i][c] = hist.df0[i][c]

\* C9 as stated, for runs that are not cancelled: at the end of a second run
\* every row that was ok is still ok with the same URL and value.
C9_OkRowsKept ==
    (pc = "done" /\ ~interrupted) =>
        \A i \in RowIdx : hist.df0[i]["Status"] = "ok" => same_result(i)

\* C9: at the end of a second run a row that was ok is still ok with the same
\* URL and value unless the run wrote it a result other than the stored one;
\* a row before the start row whose URL and parsed value are populated is
\* never written.
C9_OkRowsKeptUnlessResolvedAnew ==
    pc = "done" =>
        \A i \in RowIdx : hist.df0[i]["Status"] = "ok" =>
            /\ same_result(i) \/ i \in hist.diverged
            /\ (i + 1 < start_row /\ ~needs_backfill(hist.df0, i)) =>
                  (same_result(i) /\ i \notin hist.diverged)

\* C9 witness: a second run ended with an ok row it resolved again to the
\* stored result and an ok row before the start row, both as they were.
C9_Witness ==
    /\ pc = "done"
    /\ \E i \in RowIdx :
          /\ hist.df0[i]["Status"] = "ok"
          /\ i \in hist.written
          /\ i \notin hist.diverged
          /\ same_result(i)
    /\ \E i \in RowIdx :
          /\ hist.df0[i]["Status"] = "ok"
          /\ i + 1 < start_row
          /\ same_result(i)

\* C10 as stated: when a run ends every row of the file has a non-blank
\* status.
C10_EveryRowHasStatus ==
    pc = "done" => \A i \in RowIdx : ~is_blank(disk[i]["Status"])

\* C10: when a run that was not cancelled and may write Status ends, every
\* row at or after the start row that has a player name has a non-blank
\* status.
C10_EveryJobRowHasStatus ==
    (pc = "done" /\ ~interrupted /\ "Status" \in columns_to_fill) =>
        \A i \in RowIdx :
            (i + 1 >= start_row /\ has_name(disk[i]["Player"])) =>
                ~is_blank(disk[i]["Status"])

\* C10 witness: such a run ended having given a status to a row that had
\* none, next to a row without a name that still has none.
C10_Witness ==
    /\ pc = "done"
    /\ ~interrupted
    /\ "Status" \in columns_to_fill
    /\ \E i \in RowIdx :
          /\ i + 1 >= start_row
          /\ has_name(disk[i]["Player"])
          /\ is_blank(hist.df0[i]["Status"])
          /\ ~is_blank(disk[i]["Status"])
    /\ \E i \in RowIdx : is_blank(disk[i]["Status"])

\* C11: update_row changes only the cells of the given row whose column is in
\* the allow-list: every other cell of that row and every cell of every other
\* row is as it was before the call.
C11_UpdateRowWritesAllowedOnly ==
    [][(pc = "repo" /\ hist'.last.op = "update") =>
          \A j \in RowIdx : \A c \in HeaderSet :
              (j # hist'.last.idx \/ c \notin hist'.last.columns) =>
                  df'[j][c] = df[j][c]]_vars

\* C11 witness: update_row was given a row whose Status differs from the
\* stored one under an allow-list without Status; it wrote an allowed cell
\* and the stored Status is still there.
C11_Witness ==
    /\ hist.last.op = "update"
    /\ "Status" \notin hist.last.columns
    /\ ~is_blank(hist.last.before["Status"])
    /\ hist.last.fetched["Status"] # hist.last.before["Status"]
    /\ df[hist.last.idx]["Status"] = hist.last.before["Status"]
    /\ \E c \in hist.last.columns : df[hist.last.idx][c] # hist.last.before[c]

\* C12: the name and affiliation cells of every row stay what they were when
\* the store was loaded, whatever update_row and merge_missing_fields calls
\* follow and whatever the allow-list.
C12_NamesNeverChange ==
    \A i \in RowIdx :
        /\ df[i]["Player"] = hist.df0[i]["Player"]
        /\ df[i]["Squad"] = hist.df0[i]["Squad"]

\* C12 witness: after an update_row and a merge_missing_fields that both
\* changed cells of a row, the row has the names it was loaded with.
C12_Witness ==
    /\ hist.ops = MaxOps
    /\ hist.last.op = "merge"
    /\ df[hist.last.idx] # hist.last.before
    /\ hist.last.before # hist.df0[hist.last.idx]
    /\ df[hist.last.idx]["Player"] = hist.df0[hist.last.idx]["Player"]
    /\ df[hist.last.idx]["Squad"] = hist.df0[hist.last.idx]["Squad"]

\* The status of a row agrees with its own cells.
status_agrees(row) ==
    /\ row["Status"] = "ok" <=> ~is_blank(row["Market Value (raw)"])
    /\ row["Status"] = "value_not_found" =>
          (is_blank(row["Market Value (raw)"]) /\ ~is_blank(row["Transfermarkt URL"]))

\* C13: after every repository write, update_row with any allow-list or
\* merge_missing_fields, the status of the written row agrees with its cells:
\* ok exactly when the raw value text is non-blank, and value_not_found only
\* with a blank raw value text and a non-blank URL.
C13_StatusAgreesAfterWrite ==
    /\ hist.last.op \in {"update", "merge"} => status_agrees(df[hist.last.idx])
    /\ \A i \in hist.written : status_agrees(df[i])

\* ------------------------------------------------------------------- client
\* The rows of a result page that survive name scoring for the player.
survivors(player_name, page) ==
    { n \in 1..Len(page.rows) : score_name(player_name, page.rows[n].name) # 0 }

\* The parsed value cell that belongs to a raw value text.
parsed_cell(mv_raw) ==
    IF parse_market_value_to_int(mv_raw) = None THEN ""
    ELSE ToString(parse_market_value_to_int(mv_raw)[1])

\* C14: every result is classified by its candidate. A call that returns gives
\* not_found with blank URL and value exactly when no candidate survives in
\* either tier, value_not_found with blank parsed value for a candidate
\* without value text, and ok with the parsed value of the raw text otherwise;
\* a call that raises gives an error row; in every result status is ok exactly
\* when the raw value text is non-empty.
C14_ResultClassifiedByCandidate ==
    hist.last.op = "resolve" =>
        /\ Len(hist.last.out) = 1
        /\ LET it == hist.last.out[1]
               row == it.row
               player == hist.last.job[2]
           IN /\ row["Status"] = "ok" <=> row["Market Value (raw)"] # ""
              /\ hist.last.raised => is_error_item(it)
              /\ ~hist.last.raised =>
                    /\ row["Status"] \in {"ok", "value_not_found", "not_found"}
                    /\ row["Status"] = "not_found" <=>
                          /\ survivors(player, hist.last.http_page) = {}
                          /\ survivors(player, hist.last.browser_page) = {}
                    /\ row["Status"] = "not_found" =>
                          \A c \in {"Transfermarkt URL", "Market Value (raw)",
                                    "Market Value (int)", "Matched Club"} : row[c] = ""
                    /\ row["Status"] = "value_not_found" =>
                          /\ row["Market Value (raw)"] = ""
                          /\ row["Market Value (int)"] = ""
                          /\ row["Transfermarkt URL"] # ""
                    /\ row["Status"] = "ok" =>
                          row["Market Value (int)"] = parsed_cell(row["Market Value (raw)"])

\* C14 witness: a client with an open browser session returned ok from the
\* fast tier for a value text without digits, with a blank parsed value.
C14_Witness ==
    /\ hist.last.op = "resolve"
    /\ seq_pass.driver
    /\ ~hist.last.fallback
    /\ ~hist.last.raised
    /\ hist.last.out[1].row["Status"] = "ok"
    /\ hist.last.out[1].row["Market Value (raw)"] = "-"
    /\ hist.last.out[1].row["Market Value (int)"] = ""

\* The fast tier's page shows candidates and none of them carries an
\* affiliation label.
no_usable_label(page) ==
    /\ page.fails = ""
    /\ page.rows # <<>>
    /\ \A n \in 1..Len(page.rows) : page.rows[n].clubs = <<>>

\* C15: whenever the fast tier returns candidates none of which has a usable
\* affiliation label, the fallback tier is invoked and, when it finds a
\* candidate, the tier reported with the row is the fallback (browser), with
\* or without value text on the fast tier's candidates.
C15_FallbackWhenNoLabel ==
    (hist.last.op = "resolve" /\ no_usable_label(hist.last.http_page)) =>
        /\ hist.last.fallback
        /\ (~hist.last.raised
              /\ survivors(hist.last.job[2], hist.last.browser_page) # {}) =>
                 hist.last.out[1].source = "browser"

\* C16: for the job ("L. Messi", "Inter Miami"), when the fast tier's page
\* holds the one candidate "Lionel Messi" with label "Inter Miami CF" and
\* value text "E30.00m", the candidate survives name scoring and the result
\* row has status ok, parsed value 30000000 and a matched affiliation that
\* contains "Inter Miami".
C16_EndToEndScenario ==
    ( /\ hist.last.op = "resolve"
      /\ hist.last.job = <<0, "L. Messi", "Inter Miami">>
      /\ hist.last.http_page =
            [fails |-> "",
             rows |-> << page_row("Lionel Messi", <<"Inter Miami CF">>, "E30.00m") >>] )
    => /\ survivors("L. Messi", hist.last.http_page) # {}
       /\ ~hist.last.raised
       /\ hist.last.out[1].row["Status"] = "ok"
       /\ hist.last.out[1].row["Market Value (int)"] = "30000000"
       /\ contains(chars("Inter Miami"), chars(hist.last.out[1].row["Matched Club"]))

C18_SingleWriter ==
    [][(df' # df \/ disk' # disk) =>
          /\ worker' = worker
          /\ tasks_queue' = tasks_queue
          /\ pc \in {"poll", "alive", "retry_call", "final_save", "bf_call",
                     "bf_scan", "bf_close"}]_vars

\* C18 witness: the aggregator has written a row while a worker is in the
\* middle of a lookup.
C18_Witness ==
    /\ hist.written # {}
    /\ df # hist.df0
    /\ \E w \in Workers : worker[w].pc = "fetch"

\* ---------------------------------------------------------------- parsed value
\* C19: in every state of the store each row's parsed value is the parser's
\* result on that row's own raw value text: a non-blank parsed value equals
\* parse(raw value text).
C19_ParsedValueOfOwnRaw ==
    \A i \in RowIdx :
        ~is_blank(df[i]["Market Value (int)"]) =>
            df[i]["Market Value (int)"] = parsed_cell(df[i]["Market Value (raw)"])

\* --------------------------------------------------------------- termination
\* C20: under fair scheduling the parallel pass returns; its loop ends, when
\* not interrupted, only with as many results aggregated as there are jobs or
\* after a timed-out poll that found every worker dead, and such a poll always
\* ends it; a sentinel taken from the result queue is neither counted nor
\* written.
C20_ParallelPassTerminates ==
    /\ (pc = "poll") ~> (pc = "retry")
    /\ [][(pc = "poll" /\ pc' = "join" /\ ~interrupted') =>
             processed >= total_jobs]_vars
    /\ [][(pc = "alive" /\ pc' # "alive" /\ ~interrupted') =>
             (pc' = "join" <=>
                 \A w \in Workers : worker[w].pc \in {"unstarted", "dead"})]_vars
    /\ [][(pc = "poll" /\ result_queue # <<>> /\ result_queue' = Tail(result_queue)
           /\ Head(result_queue).idx = NoneIdx /\ ~interrupted') =>
             UNCHANGED << df, disk, processed, processed_idxs, results >>]_vars

\* C20 witness: the pass has returned without interrupt after its loop ended
\* on the dead-workers check with a sentinel still in the queue.
C20_Witness ==
    /\ pc = "retry"
    /\ ~interrupted
    /\ total_jobs > 0
    /\ processed < total_jobs
    /\ \E n \in 1..Len(result_queue) : result_queue[n].idx = NoneIdx

\* ------------------------------------------------------------------ retry list
\* C21: in a run that was not cancelled the retry list holds, once each, exactly
\* the job indices that are not in processed_idxs, and once the retry pass is
\* over every job index has been written by update_row exactly once in the
\* parallel and retry passes together; no other row was written by it.
C21_RetryListAndSingleWrite ==
    /\ (~interrupted /\ pc \in {"retry_call", "retry_close", "final_save", "backfill",
                                 "bf_scan", "bf_call", "bf_close", "done"}) =>
          /\ Range(missing_idxs) = JobIdxs \ processed_idxs
          /\ Len(missing_idxs) = Cardinality(JobIdxs \ processed_idxs)
    /\ (~interrupted /\ pc \in {"final_save", "backfill", "bf_scan", "bf_call",
                                 "bf_close", "done"}) =>
          \A i \in RowIdx : hist.writes[i] = (IF i \in JobIdxs THEN 1 ELSE 0)

\* C21 witness: a run that was not cancelled is past its retry pass with one
\* job written by the parallel pass and another by the retry pass.
C21_Witness ==
    /\ ~interrupted
    /\ pc = "final_save"
    /\ processed_idxs # {}
    /\ missing_idxs # <<>>
    /\ hist.retry_calls = Len(missing_idxs)
    /\ \A i \in JobIdxs : hist.writes[i] = 1

C23_RetryContainsErrors ==
    [][ /\ (pc = "retry_call" /\ seq_pass' # seq_pass) =>
              LET idx == missing_idxs[seq_pass.i]
                  row_out == results'[Len(results')]
              IN /\ Len(results') = Len(results) + 1
                 /\ idx \in hist'.retry_raised <=>
                       /\ row_out["Status"] \in {"error:WebDriverException",
                                                 "error:TimeoutException"}
                       /\ \A c \in {"Transfermarkt URL", "Market Value (raw)",
                                     "Market Value (int)", "Matched Club"} :
                             row_out[c] = ""
                 /\ \A c \in HeaderSet :
                       df'[idx][c] = IF c \in columns_to_fill THEN row_out[c]
                                     ELSE df[idx][c]
                 /\ seq_pass'.i = seq_pass.i + 1
                 /\ pc' = IF seq_pass.i < Len(missing_idxs)
                          THEN "retry_call" ELSE "retry_close"
        /\ pc' \in {"retry_call", "retry_close"} =>
              /\ seq_pass'.created = 1
              /\ seq_pass'.closed = 0
              /\ \A m, n \in 1..Len(missing_idxs') :
                    m < n => missing_idxs'[m] < missing_idxs'[n]
        /\ (pc' = "final_save" /\ missing_idxs' # <<>>) =>
              /\ seq_pass'.created = 1
              /\ seq_pass'.closed = 1
              /\ ~seq_pass'.driver
              /\ hist'.retry_calls = Len(missing_idxs') ]_vars

\* C23 witness: the retry pass is over; its first lookup raised in the browser
\* and left an error row, its second one, made by the same client with the
\* session still open, was written as ok, and the client is closed.
C23_Witness ==
    /\ pc = "final_save"
    /\ Len(missing_idxs) = 2
    /\ missing_idxs[1] \in hist.retry_raised
    /\ missing_idxs[2] \notin hist.retry_raised
    /\ df[missing_idxs[1]]["Status"] = "error:TimeoutException"
    /\ df[missing_idxs[2]]["Status"] = "ok"
    /\ seq_pass.closed = 1

\* ---------------------------------------------------------------- merge status
\* C24: after merge_missing_fields the status of the row is ok when its raw
\* value text is then non-blank, else value_not_found when its URL is then
\* non-blank, else what the fill left in the cell: the old status, or the
\* fetched one when the old one was blank.
C24_StatusAfterMerge ==
    hist.last.op = "merge" =>
        LET row == df[hist.last.idx]
            before == hist.last.before
            fetched == hist.last.fetched
        IN row["Status"] =
              IF ~is_blank(row["Market Value (raw)"]) THEN "ok"
              ELSE IF ~is_blank(row["Transfermarkt URL"]) THEN "value_not_found"
              ELSE IF is_blank(before["Status"]) THEN fetched["Status"]
              ELSE before["Status"]

\* C24 witness: a merge of a not_found record into a row without status, URL
\* and value left the fetched status in the row.
C24_Witness ==
    /\ hist.last.op = "merge"
    /\ is_blank(hist.last.before["Status"])
    /\ hist.last.fetched["Status"] = "not_found"
    /\ is_blank(df[hist.last.idx]["Market Value (raw)"])
    /\ is_blank(df[hist.last.idx]["Transfermarkt URL"])
    /\ df[hist.last.idx]["Status"] = "not_found"

\* --------------------------------------------------------------- backfill pass
\* The rows the backfill pass has looked up or is looking up.
bf_taken ==
    hist.bf_looked \cup (IF pc = "bf_call" THEN {seq_pass.i} ELSE {})

\* The rows the loop of the backfill pass has come to.
bf_reached ==
    { i \in RowIdx : i < seq_pass.i \/ (pc = "bf_call" /\ i = seq_pass.i) }

\* C25: while the backfill pass runs, the rows it has looked up are, among the
\* rows its loop has come to, exactly those at or after
\* max(0, start_row - 1 - BACKFILL_BEHIND_ROWS) that had, when the pass began,
\* a non-blank name and a blank URL or a blank parsed value; every other row,
\* and so every row with URL and parsed value populated, is as it was when
\* the pass began.
C25_BackfillLooksUpIncompleteRows ==
    pc \in {"bf_scan", "bf_call"} =>
        \A i \in RowIdx :
            /\ i \in bf_taken <=>
                  /\ i \in bf_reached
                  /\ i >= Max(0, start_row - 1 - BACKFILL_BEHIND_ROWS)
                  /\ ~is_blank(disk[i]["Player"])
                  /\ \/ is_blank(disk[i]["Transfermarkt URL"])
                     \/ is_blank(disk[i]["Market Value (int)"])
            /\ i \notin hist.bf_looked => df[i] = disk[i]

\* C25 witness: the loop of a backfill pass that began at the last row is
\* over; the pass looked that row up and filled it, left a row before its
\* first row alone although it has no URL, and the run had no job.
C25_Witness ==
    /\ pc = "bf_scan"
    /\ seq_pass.i = NRows
    /\ start_row = LateStart
    /\ rows = <<>>
    /\ hist.bf_looked = {NRows - 1}
    /\ df[NRows - 1]["Status"] = "ok"
    /\ ~is_blank(df[0]["Player"])
    /\ is_blank(df[0]["Transfermarkt URL"])

\* --------------------------------------------------------- candidate selection
\* The key of row n of a page for a job: (composite, name score, affiliation
\* score).
cand_key(job, page, n) ==
    LET name_score == score_name(job[2], page.rows[n].name)
        squad_score == score_squad(job[3], page.rows[n].clubs)[1]
    IN << (name_score * 10) + (squad_score * 4)
            + (IF page.rows[n].mv_raw # "" THEN 1 ELSE 0),
          name_score, squad_score >>

\* Lexicographic order on keys.
key_below(a, b) ==
    \/ a[1] < b[1]
    \/ a[1] = b[1] /\ a[2] < b[2]
    \/ a[1] = b[1] /\ a[2] = b[2] /\ a[3] < b[3]

\* match is what the selection must return for the job on the page: nothing
\* when no row survives, else the first of the surviving rows of greatest key.
selected(job, page, match) ==
    LET S == survivors(job[2], page)
    IN /\ match = None <=> S = {}
       /\ S # {} =>
             \E n \in S :
                /\ \A m \in S : ~key_below(cand_key(job, page, n), cand_key(job, page, m))
                /\ \A m \in S : m < n =>
                       key_below(cand_key(job, page, m), cand_key(job, page, n))
                /\ match = << page.rows[n].href,
                              score_squad(job[3], page.rows[n].clubs)[2],
                              page.rows[n].mv_raw >>

\* C26: in both tiers the selection leaves out every row whose name score is 0
\* and returns the first row, in page order, whose key (composite, name score,
\* affiliation score) is greatest in lexicographic order; it returns nothing
\* exactly when no row survives.
C26_FirstBestCandidate ==
    hist.last.op = "resolve" =>
        /\ selected(hist.last.job, hist.last.http_page, hist.last.http_match)
        /\ (hist.last.fallback /\ hist.last.browser_page.fails = "") =>
              selected(hist.last.job, hist.last.browser_page, hist.last.browser_match)

\* C26 witness: the fast tier met a row of name score 0 ahead of a survivor
\* and returned the survivor, and the fallback tier met two rows of equal key
\* and returned the first.
C26_Witness ==
    /\ hist.last.op = "resolve"
    /\ hist.last.fallback
    /\ Len(hist.last.http_page.rows) = 2
    /\ survivors(hist.last.job[2], hist.last.http_page) = {2}
    /\ hist.last.http_match # None
    /\ hist.last.http_match[1] = hist.last.http_page.rows[2].href
    /\ Len(hist.last.browser_page.rows) = 2
    /\ cand_key(hist.last.job, hist.last.browser_page, 1)
          = cand_key(hist.last.job, hist.last.browser_page, 2)
    /\ hist.last.browser_match # None
    /\ hist.last.browser_match[1] = hist.last.browser_page.rows[1].href
    /\ hist.last.browser_match[1] # hist.last.browser_page.rows[2].href
    /\ hist.last.out[1].row["Market Value (raw)"] = "750k"

\* ------------------------------------------------------------ browser session
\* C27: a client holds at most one browser session and leaves none behind:
\* the sessions built less the sessions quit is 1 while the client has a
\* driver and 0 while it has none.  A call builds a session only in a
\* fallback of a client without one; a fallback of a client with a session
\* keeps that session and builds none, also when the session's first
\* navigation had failed; a call without fallback leaves the client as it
\* was.  close() quits the session when there is one, lets no error of the
\* quit out, leaves the client without session, and does nothing more on a
\* client without session.
C27_OneSessionPerClient ==
    /\ hist.opened - hist.quit = (IF seq_pass.driver THEN 1 ELSE 0)
    /\ hist.last.op = "call" =>
          /\ hist.last.built = 1 <=>
                /\ hist.last.fallback
                /\ ~hist.last.driver_before
                /\ hist.last.browser # <<"build_raises">>
          /\ hist.last.built \in {0, 1}
          /\ (hist.last.fallback /\ hist.last.driver_before) => seq_pass.driver
          /\ ~hist.last.fallback => seq_pass.driver = hist.last.driver_before
    /\ hist.last.op = "close" =>
          /\ ~seq_pass.driver
          /\ ~hist.last.escaped
          /\ ~hist.last.driver_before => hist.quit = hist.opened

\* C27 witness: a client built its session in a fallback whose navigation
\* failed, and its next fallback returned a row with that session and built
\* none.
C27_Witness ==
    /\ hist.last.op = "call"
    /\ hist.last.prev = [op |-> "call", raised |-> TRUE, built |-> 1]
    /\ hist.last.fallback
    /\ hist.last.driver_before
    /\ ~hist.last.raised
    /\ hist.last.built = 0
    /\ hist.opened = 1
    /\ hist.quit = 0
    /\ seq_pass.driver

\* ---------------------------------------------------------------- row identity
\* C28: from the load of the store on, the table and the file have the rows
\* they were loaded with, each at its position with its name and affiliation,
\* and every index the passes hand to update_row or merge_missing_fields, the
\* job indices, the indices of the queued results, the retry list and the
\* row of the backfill call, is the index of one of these rows.
C28_RowsKeepTheirPlace ==
    /\ DOMAIN df = DOMAIN hist.df0
    /\ DOMAIN disk = DOMAIN hist.df0
    /\ \A i \in DOMAIN hist.df0 :
          /\ df[i]["Player"] = hist.df0[i]["Player"]
          /\ df[i]["Squad"] = hist.df0[i]["Squad"]
    /\ JobIdxs \subseteq DOMAIN hist.df0
    /\ \A n \in 1..Len(result_queue) :
          result_queue[n].idx \in (DOMAIN hist.df0) \cup {NoneIdx}
    /\ Range(missing_idxs) \subseteq DOMAIN hist.df0
    /\ pc = "bf_call" => seq_pass.i \in DOMAIN hist.df0
    /\ hist.written \cup hist.bf_looked \subseteq DOMAIN hist.df0

\* C28 witness: a run has ended in which the parallel pass, the retry pass
\* and the backfill pass each changed a row, and the table has the rows it was
\* loaded with.
C28_Witness ==
    /\ pc = "done"
    /\ hist.written # {}
    /\ hist.retry_calls > 0
    /\ hist.bf_looked # {}
    /\ \A i \in hist.bf_looked : df[i] # disk[i] \/ df[i] # hist.df0[i]
    /\ DOMAIN df = RowIdx

\* -------------------------------------------------------------------- job list
\* C29: the job list holds, in row order and once each, exactly the rows at
\* 1-based position start_row or later whose name is not blank under
\* is_blank, each with its own name and affiliation, so that a row is a job
\* of the parallel pass exactly when the backfill pass takes it to have a
\* name.
C29_JobsAreNamedRows ==
    pc = "parallel" =>
        /\ JobIdxs = { i \in RowIdx : i + 1 >= start_row /\ ~is_blank(df[i]["Player"]) }
        /\ \A m, n \in 1..Len(rows) : m < n => rows[m][1] < rows[n][1]
        /\ \A n \in 1..Len(rows) :
              /\ rows[n][2] = df[rows[n][1]]["Player"]
              /\ rows[n][3] = df[rows[n][1]]["Squad"]

\* ------------------------------------------------------------ after the interrupt
\* C30: once the aggregator has caught the interrupt nothing is taken from
\* the result queue any more, whatever the workers still put into it: every
\* result waiting there stays there, update_row is not called again and
\* processed_idxs and results stay as the handler found them.
C30_NoReadAfterInterrupt ==
    [][interrupted =>
          /\ Len(result_queue') >= Len(result_queue)
          /\ SubSeq(result_queue', 1, Len(result_queue)) = result_queue
          /\ hist'.writes = hist.writes
          /\ hist'.written = hist.written
          /\ processed_idxs' = processed_idxs
          /\ processed' = processed
          /\ results' = results]_vars

\* C30 witness: a cancelled run has ended; a worker took a job after the
\* interrupt and pushed its result, which is still in the result queue, was
\* never written and is not in processed_idxs.
C30_Witness ==
    /\ interrupted
    /\ pc = "done"
    /\ \E w \in Workers : hist.late_gets[w] = 1
    /\ \E n \in 1..Len(result_queue) :
          /\ result_queue[n].idx # NoneIdx
          /\ hist.writes[result_queue[n].idx] = 0
          /\ result_queue[n].idx \notin processed_idxs
          /\ df[result_queue[n].idx] = hist.df0[result_queue[n].idx]

\* ------------------------------------------------------------------ final state
\* C31: when run() has returned, after a cancelled parallel pass or not, with
\* the backfill pass disabled, run to its end or interrupted, the file holds
\* the table: no change made by update_row or merge_missing_fields is left
\* unsaved.
C31_FileHoldsTableAtEnd ==
    pc = "done" => disk = df

\* C31 witness: a run has ended whose parallel pass was cancelled after it
\* wrote a row and whose backfill pass merged a row and was then interrupted
\* before the end of its loop; the file holds the table.
C31_Witness ==
    /\ pc = "done"
    /\ interrupted
    /\ hist.written # {}
    /\ seq_pass.created = 1
    /\ seq_pass.updates > 0
    /\ seq_pass.i < NRows
    /\ \E i \in hist.bf_looked : df[i] # hist.df0[i] /\ i \notin hist.written
    /\ disk = df

\* C32: in the backfill pass a lookup that raises writes nothing: the table,
\* status and timestamp of the row included, and the file stay as they were,
\* the count of touched rows stays, and the pass goes on to the next row.
C32_RaisedBackfillLookupSkipsRow ==
    [][(pc = "bf_call" /\ seq_pass.i \in hist'.bf_raised)
          => /\ df' = df
             /\ disk' = disk
             /\ seq_pass'.updates = seq_pass.updates
             /\ seq_pass'.i = seq_pass.i + 1
             /\ pc' = "bf_scan"]_vars

\* C32 witness: the lookup for a row raised, the row is as the pass found it,
\* and the pass went on to look up and merge a later row.
C32_Witness ==
    /\ pc = "bf_scan"
    /\ seq_pass.updates = 1
    /\ \E i \in hist.bf_raised :
          /\ is_blank(df[i]["Status"])
          /\ is_blank(df[i]["Updated At"])
          /\ \E j \in hist.bf_looked \ hist.bf_raised :
                j > i /\ df[j]["Status"] \in {"ok", "value_not_found"}

====
